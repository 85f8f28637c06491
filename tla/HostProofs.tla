----------------------------- MODULE HostProofs -----------------------------
(***************************************************************************)
(* Proofs about a machine that is controlled: the cursor's service, the    *)
(* failures of logins, the settings and who keeps them, the services that  *)
(* hold the server, the keys and the modes of the input.  They are for all *)
(* values of the constants; where a component is a part of MCHost, for its *)
(* instance there (the keys and the modes: for every setting of theirs,    *)
(* and from that for their instances).                                     *)
(***************************************************************************)
EXTENDS MCHost, Sequences, SequenceTheorems, TLAPS

(* The cursor's service. *)

\* A login is accepted.
LEMMA AddConnectionStep ==
  ASSUME Inv, NEW c \in Conn, AddConnection(c)
  PROVE  Inv'
<1> USE CursorAssumption DEF Inv, AddConnection, OnSubscribe, TypeOK, subs, thread, conns, history
<1>1. TypeOK'
  OBVIOUS
<1>2. SnapshotIsCurrent'
  BY DEF SnapshotIsCurrent
<1>3. CallerIsOpen'
  BY DEF CallerIsOpen
<1>4. InSync'
  BY DEF SnapshotIsCurrent, InSync
<1>5. RevokedIsOut'
  BY DEF RevokedIsOut
<1>6. ClosedIsForgotten'
  BY DEF CallerIsOpen, ClosedIsForgotten
<1> QED
  BY <1>1, <1>2, <1>3, <1>4, <1>5, <1>6

\* A permission or an option is set.
LEMMA SubscribeStep ==
  ASSUME Inv, NEW c \in Conn, NEW sub \in BOOLEAN, Subscribe(c, sub)
  PROVE  Inv'
<1> USE CursorAssumption DEF Inv, Subscribe, IsSubed, TypeOK, subs, thread, conns, history
<1>1. TypeOK'
  OBVIOUS
<1>2. SnapshotIsCurrent'
  BY DEF SnapshotIsCurrent
<1>3. CallerIsOpen'
  BY DEF CallerIsOpen
<1>4. InSync'
  BY DEF SnapshotIsCurrent, InSync
<1>5. RevokedIsOut'
  BY DEF RevokedIsOut
<1>6. ClosedIsForgotten'
  BY DEF CallerIsOpen, ClosedIsForgotten
<1> QED
  BY <1>1, <1>2, <1>3, <1>4, <1>5, <1>6

\* Server::subscribe subscribes or unsubscribes.
LEMMA SubscribeEndsStep ==
  ASSUME Inv, NEW c \in Conn, SubscribeEnds(c)
  PROVE  Inv'
<1> USE CursorAssumption DEF Inv, SubscribeEnds, OnSubscribe, OnUnsubscribe, TypeOK, subs, thread, conns, history
<1>1. TypeOK'
  OBVIOUS
<1>2. SnapshotIsCurrent'
  BY DEF SnapshotIsCurrent
<1>3. CallerIsOpen'
  BY DEF CallerIsOpen
<1>4. InSync'
  BY DEF SnapshotIsCurrent, InSync
<1>5. RevokedIsOut'
  BY DEF RevokedIsOut
<1>6. ClosedIsForgotten'
  BY DEF CallerIsOpen, ClosedIsForgotten
<1> QED
  BY <1>1, <1>2, <1>3, <1>4, <1>5, <1>6

\* A connection is closed.
LEMMA CloseStep ==
  ASSUME Inv, NEW c \in Conn, Close(c)
  PROVE  Inv'
<1> USE CursorAssumption DEF Inv, Close, OnUnsubscribe, TypeOK, subs, thread, conns, history
<1>1. TypeOK'
  OBVIOUS
<1>2. SnapshotIsCurrent'
  BY DEF SnapshotIsCurrent
<1>3. CallerIsOpen'
  BY DEF CallerIsOpen
<1>4. InSync'
  BY DEF SnapshotIsCurrent, InSync
<1>5. RevokedIsOut'
  BY DEF RevokedIsOut
<1>6. ClosedIsForgotten'
  BY DEF CallerIsOpen, ClosedIsForgotten
<1> QED
  BY <1>1, <1>2, <1>3, <1>4, <1>5, <1>6

\* A login is refused.
LEMMA RefuseStep ==
  ASSUME Inv, NEW c \in Conn, Refuse(c)
  PROVE  Inv'
<1> USE CursorAssumption DEF Inv, Refuse, TypeOK, subs, thread, conns, history
<1>1. TypeOK'
  OBVIOUS
<1>2. SnapshotIsCurrent'
  BY DEF SnapshotIsCurrent
<1>3. CallerIsOpen'
  BY DEF CallerIsOpen
<1>4. InSync'
  BY DEF SnapshotIsCurrent, InSync
<1>5. RevokedIsOut'
  BY DEF RevokedIsOut
<1>6. ClosedIsForgotten'
  BY DEF CallerIsOpen, ClosedIsForgotten
<1> QED
  BY <1>1, <1>2, <1>3, <1>4, <1>5, <1>6

\* The thread looks for subscribers.
LEMMA CheckSubscribesStep ==
  ASSUME Inv, CheckSubscribes
  PROVE  Inv'
<1> USE CursorAssumption DEF Inv, CheckSubscribes, HasSubscribes, TypeOK, subs, thread, conns, history
<1>1. TypeOK'
  OBVIOUS
<1>2. SnapshotIsCurrent'
  BY DEF SnapshotIsCurrent
<1>3. CallerIsOpen'
  BY DEF CallerIsOpen
<1>4. InSync'
  BY DEF SnapshotIsCurrent, InSync
<1>5. RevokedIsOut'
  BY DEF RevokedIsOut
<1>6. ClosedIsForgotten'
  BY DEF CallerIsOpen, ClosedIsForgotten
<1> QED
  BY <1>1, <1>2, <1>3, <1>4, <1>5, <1>6

\* The thread forgets what it has sent.
LEMMA ResetStep ==
  ASSUME Inv, Reset
  PROVE  Inv'
<1> USE CursorAssumption DEF Inv, Reset, TypeOK, subs, thread, conns, history
<1>1. TypeOK'
  OBVIOUS
<1>2. SnapshotIsCurrent'
  BY DEF SnapshotIsCurrent
<1>3. CallerIsOpen'
  BY DEF CallerIsOpen
<1>4. InSync'
  BY DEF SnapshotIsCurrent, InSync
<1>5. RevokedIsOut'
  BY DEF RevokedIsOut
<1>6. ClosedIsForgotten'
  BY DEF CallerIsOpen, ClosedIsForgotten
<1> QED
  BY <1>1, <1>2, <1>3, <1>4, <1>5, <1>6

\* The thread sends a change.
LEMMA ObserveStep ==
  ASSUME Inv, Observe
  PROVE  Inv'
<1> USE CursorAssumption DEF Inv, Observe, TypeOK, subs, thread, conns, history
<1>1. TypeOK'
  OBVIOUS
<1>2. SnapshotIsCurrent'
  BY DEF SnapshotIsCurrent
<1>3. CallerIsOpen'
  BY DEF CallerIsOpen
<1>4. InSync'
  BY DEF SnapshotIsCurrent, InSync
<1>5. RevokedIsOut'
  BY DEF RevokedIsOut
<1>6. ClosedIsForgotten'
  BY DEF CallerIsOpen, ClosedIsForgotten
<1> QED
  BY <1>1, <1>2, <1>3, <1>4, <1>5, <1>6

\* The cursor cannot be read.
LEMMA ObserveFailsStep ==
  ASSUME Inv, ObserveFails
  PROVE  Inv'
<1> USE CursorAssumption DEF Inv, ObserveFails, TypeOK, subs, thread, conns, history
<1>1. TypeOK'
  OBVIOUS
<1>2. SnapshotIsCurrent'
  BY DEF SnapshotIsCurrent
<1>3. CallerIsOpen'
  BY DEF CallerIsOpen
<1>4. InSync'
  BY DEF SnapshotIsCurrent, InSync
<1>5. RevokedIsOut'
  BY DEF RevokedIsOut
<1>6. ClosedIsForgotten'
  BY DEF CallerIsOpen, ClosedIsForgotten
<1> QED
  BY <1>1, <1>2, <1>3, <1>4, <1>5, <1>6

\* The thread looks for newcomers.
LEMMA CheckNewStep ==
  ASSUME Inv, CheckNew
  PROVE  Inv'
<1> USE CursorAssumption DEF Inv, CheckNew, TypeOK, subs, thread, conns, history
<1>1. TypeOK'
  OBVIOUS
<1>2. SnapshotIsCurrent'
  BY DEF SnapshotIsCurrent
<1>3. CallerIsOpen'
  BY DEF CallerIsOpen
<1>4. InSync'
  BY DEF SnapshotIsCurrent, InSync
<1>5. RevokedIsOut'
  BY DEF RevokedIsOut
<1>6. ClosedIsForgotten'
  BY DEF CallerIsOpen, ClosedIsForgotten
<1> QED
  BY <1>1, <1>2, <1>3, <1>4, <1>5, <1>6

\* The newcomers are sent the snapshot.
LEMMA SendNewStep ==
  ASSUME Inv, SendNew
  PROVE  Inv'
<1> USE CursorAssumption DEF Inv, SendNew, TypeOK, subs, thread, conns, history
<1>1. TypeOK'
  OBVIOUS
<1>2. SnapshotIsCurrent'
  BY DEF SnapshotIsCurrent
<1>3. CallerIsOpen'
  BY DEF CallerIsOpen
<1>4. InSync'
  BY DEF SnapshotIsCurrent, InSync
<1>5. RevokedIsOut'
  BY DEF RevokedIsOut
<1>6. ClosedIsForgotten'
  BY DEF CallerIsOpen, ClosedIsForgotten
<1> QED
  BY <1>1, <1>2, <1>3, <1>4, <1>5, <1>6

\* The newcomers become subscribers.
LEMMA SwapStep ==
  ASSUME Inv, Swap
  PROVE  Inv'
<1> USE CursorAssumption DEF Inv, Swap, SwapNewSubscribes, TypeOK, subs, thread, conns, history
<1>1. TypeOK'
  OBVIOUS
<1>2. SnapshotIsCurrent'
  BY DEF SnapshotIsCurrent
<1>3. CallerIsOpen'
  BY DEF CallerIsOpen
<1>4. InSync'
  BY DEF SnapshotIsCurrent, InSync
<1>5. RevokedIsOut'
  BY DEF RevokedIsOut
<1>6. ClosedIsForgotten'
  BY DEF CallerIsOpen, ClosedIsForgotten
<1> QED
  BY <1>1, <1>2, <1>3, <1>4, <1>5, <1>6

\* The cursor on the screen changes.
LEMMA ChangeStep ==
  ASSUME Inv, NEW k \in Cursor \cup {None}, Change(k)
  PROVE  Inv'
<1> USE CursorAssumption DEF Inv, Change, TypeOK, subs, thread, conns, history
<1>1. TypeOK'
  OBVIOUS
<1>2. SnapshotIsCurrent'
  BY DEF SnapshotIsCurrent
<1>3. CallerIsOpen'
  BY DEF CallerIsOpen
<1>4. InSync'
  BY DEF SnapshotIsCurrent, InSync
<1>5. RevokedIsOut'
  BY DEF RevokedIsOut
<1>6. ClosedIsForgotten'
  BY DEF CallerIsOpen, ClosedIsForgotten
<1> QED
  BY <1>1, <1>2, <1>3, <1>4, <1>5, <1>6

-----------------------------------------------------------------------------
\* The initial state has the inductive invariant.
LEMMA InitInv == Init => Inv
BY CursorAssumption DEF Init, Inv, TypeOK, SnapshotIsCurrent, CallerIsOpen,
   InSync, RevokedIsOut, ClosedIsForgotten, NoSubscribers

\* A stutter keeps it.
LEMMA Stutter == Inv /\ UNCHANGED vars => Inv'
BY DEF vars, Inv, TypeOK, SnapshotIsCurrent, CallerIsOpen,
   InSync, RevokedIsOut, ClosedIsForgotten, subs, thread, conns, history

\* Every step keeps it.
LEMMA NextInv == Inv /\ Next => Inv'
BY AddConnectionStep, SubscribeStep, SubscribeEndsStep, CloseStep, RefuseStep,
   CheckSubscribesStep, ResetStep, ObserveStep, ObserveFailsStep, CheckNewStep,
   SendNewStep, SwapStep, ChangeStep DEF Next, ConnNext, ThreadNext

\* It always holds.
LEMMA Invariance == Spec => []Inv
<1>1. Init => Inv
  BY InitInv
<1>2. Inv /\ [Next]_vars => Inv'
  BY NextInv, Stutter
<1> QED
  BY <1>1, <1>2, PTL DEF Spec

\* Every variable of the service always has its type, and no connection is in both maps
\* of subscribers.
THEOREM CursorTypeCorrect == Spec => []TypeOK
<1>1. Inv => TypeOK
  BY DEF Inv
<1> QED
  BY <1>1, Invariance, PTL

\* A subscriber that was not caught between the callback of a snapshot and its drop
\* always shows what the service's thread has sent last.
THEOREM SubscribersInSync == Spec => []InSync
<1>1. Inv => InSync
  BY DEF Inv
<1> QED
  BY <1>1, Invariance, PTL

\* A connection without the permission is in neither map of subscribers, once
\* Server::subscribe is through, unless it waited for the snapshot when it was revoked.
THEOREM RevokedGetNothing == Spec => []RevokedIsOut
<1>1. Inv => RevokedIsOut
  BY DEF Inv
<1> QED
  BY <1>1, Invariance, PTL

\* remove_connection leaves nothing of a connection in the service, and nothing puts
\* it back.
THEOREM ClosedAreForgotten == Spec => []ClosedIsForgotten
<1>1. Inv => ClosedIsForgotten
  BY DEF Inv
<1> QED
  BY <1>1, Invariance, PTL

-----------------------------------------------------------------------------
(* The failures of logins. *)

\* Nothing is counted at first.
LEMMA LoginInitInv == LoginInit => LoginInv
<1> SUFFICES ASSUME LoginInit PROVE LoginInv
  OBVIOUS
<1> USE FailuresAssumption DEF LoginInit, NoRecord, NoCopy
<1>1. failures \in Record
  BY DEF Record
<1>2. copy \in [Guest -> [time : 0 .. MaxTime, rec : Record]]
  BY DEF Record
<1>3. \A c \in Guest : copy[c].rec.min <= copy[c].time /\ copy[c].time <= now
  OBVIOUS
<1> QED
  BY <1>1, <1>2, <1>3 DEF LoginInv, InMinuteIsCounted, CountedUnlessOverlapped

\* A failure counted from a copy that was not yet over a limit leaves a record within its bounds, of
\* the minute of that copy.
LEMMA CountedInRecord ==
  ASSUME NEW r \in Record, NEW t \in 0 .. MaxTime, ~TooMany(r), ~Later(r, t), r.min <= t
  PROVE  /\ Counted(r, t) \in Record
         /\ Counted(r, t).min = t
         /\ Counted(r, t).cnt = (IF r.min = t THEN r.cnt + 1 ELSE 1)
         /\ Counted(r, t).tot = r.tot + 1
<1> USE FailuresAssumption
<1>1. /\ r.min \in 0 .. MaxTime /\ r.cnt \in 0 .. MaxMinute + 1 /\ r.tot \in 0 .. MaxTotal + 1
      /\ r.cnt <= r.tot /\ r = [min |-> r.min, cnt |-> r.cnt, tot |-> r.tot]
  BY DEF Record
<1>2. r.tot <= MaxTotal
  BY <1>1 DEF TooMany
<1>3. CASE r.min = t
  <2>1. r.cnt <= MaxMinute
    BY <1>1, <1>3 DEF Later
  <2>2. Counted(r, t) = [min |-> t, cnt |-> r.cnt + 1, tot |-> r.tot + 1]
    BY <1>1, <1>3 DEF Counted
  <2> QED
    BY <1>1, <1>2, <1>3, <2>1, <2>2 DEF Record
<1>4. CASE r.min # t
  <2>1. Counted(r, t) = [min |-> t, cnt |-> 1, tot |-> r.tot + 1]
    BY <1>4 DEF Counted
  <2> QED
    BY <1>1, <1>2, <1>4, <2>1 DEF Record
<1> QED
  BY <1>3, <1>4

\* Whatever the guests do, the counts keep to what was counted.
LEMMA LoginStep ==
  ASSUME LoginInv, [LoginNext]_loginVars
  PROVE  LoginInv'
<1> USE FailuresAssumption
<1>0. /\ failures \in Record /\ now \in 1 .. MaxTime
      /\ copy \in [Guest -> [time : 0 .. MaxTime, rec : Record]]
      /\ wrong \in 0 .. MaxWrong /\ overlaps \in Nat /\ inMinute \in Nat /\ inMinute <= wrong
  BY DEF LoginInv
<1>1. NoRecord \in Record /\ NoCopy \in [time : 0 .. MaxTime, rec : Record] /\ NoCopy.rec.min <= NoCopy.time
      /\ NoCopy.time = 0 /\ NoRecord.min = 0 /\ NoRecord.tot = 0
  BY DEF NoRecord, NoCopy, Record
<1>2. CASE Minute
  BY <1>0, <1>2 DEF Minute, LoginInv, CountedUnlessOverlapped, InMinuteIsCounted, Record
<1>3. ASSUME NEW c \in Guest, Read(c) PROVE LoginInv'
  <2>1. [time |-> now, rec |-> failures] \in [time : 0 .. MaxTime, rec : Record]
    BY <1>0
  <2> QED
    BY <1>0, <1>3, <2>1 DEF Read, LoginInv, CountedUnlessOverlapped, InMinuteIsCounted
<1>4. ASSUME NEW c \in Guest, RefuseLogin(c) PROVE LoginInv'
  BY <1>0, <1>1, <1>4 DEF RefuseLogin, LoginInv, CountedUnlessOverlapped, InMinuteIsCounted
<1>5. ASSUME NEW c \in Guest, Wrong(c) PROVE LoginInv'
  <2> DEFINE r == copy[c].rec
             t == copy[c].time
  <2>1. r \in Record /\ t \in 0 .. MaxTime /\ r.min <= t /\ t <= now
    BY <1>0 DEF LoginInv
  <2>2. /\ Counted(r, t) \in Record
        /\ Counted(r, t).min = t
        /\ Counted(r, t).cnt = (IF r.min = t THEN r.cnt + 1 ELSE 1)
        /\ Counted(r, t).tot = r.tot + 1
    BY <1>5, <2>1, CountedInRecord DEF Wrong, Compares
  <2>3. /\ failures' = Counted(r, t) /\ wrong' = wrong + 1 /\ wrong < MaxWrong /\ now' = now
        /\ copy' = [copy EXCEPT ![c] = NoCopy]
        /\ inMinute' = IF t = now THEN inMinute + 1 ELSE inMinute
        /\ overlaps' = IF r # failures THEN overlaps + 1 ELSE overlaps
    BY <1>5 DEF Wrong, Overlaps
  <2>4. copy' \in [Guest -> [time : 0 .. MaxTime, rec : Record]]
        /\ \A d \in Guest : copy'[d].rec.min <= copy'[d].time /\ copy'[d].time <= now'
    BY <1>0, <1>1, <2>3 DEF LoginInv
  <2>5. CountedUnlessOverlapped'
    BY <1>0, <2>2, <2>3 DEF LoginInv, CountedUnlessOverlapped
  <2>6. InMinuteIsCounted'
    BY <1>0, <2>1, <2>2, <2>3 DEF LoginInv, InMinuteIsCounted, Record
  <2>7. failures'.min <= now'
    BY <2>1, <2>2, <2>3
  <2> QED
    BY <1>0, <2>2, <2>3, <2>4, <2>5, <2>6, <2>7 DEF LoginInv
<1>6. ASSUME NEW c \in Guest, Right(c) PROVE LoginInv'
  <2>1. copy' \in [Guest -> [time : 0 .. MaxTime, rec : Record]]
        /\ \A d \in Guest : copy'[d].rec.min <= copy'[d].time /\ copy'[d].time <= now'
    BY <1>0, <1>1, <1>6 DEF Right, LoginInv
  <2>2. CASE copy[c].rec.min # 0
    BY <1>0, <1>1, <1>6, <2>1, <2>2 DEF Right, LoginInv, CountedUnlessOverlapped, InMinuteIsCounted
  <2>3. CASE copy[c].rec.min = 0
    BY <1>0, <1>6, <2>1, <2>3 DEF Right, LoginInv, CountedUnlessOverlapped, InMinuteIsCounted
  <2> QED
    BY <2>2, <2>3
<1>7. CASE UNCHANGED loginVars
  BY <1>7 DEF loginVars, LoginInv, CountedUnlessOverlapped, InMinuteIsCounted
<1> QED
  BY <1>2, <1>3, <1>4, <1>5, <1>6, <1>7 DEF LoginNext

\* They always do.
LEMMA LoginInvariance == LoginSpec => []LoginInv
BY LoginInitInv, LoginStep, PTL DEF LoginSpec

\* What LoginsHold asks for follows.
LEMMA LoginInvHolds == LoginInv => LoginsHold
<1> SUFFICES ASSUME LoginInv PROVE LoginsHold
  OBVIOUS
<1> USE FailuresAssumption
<1>1. failures \in [min : 0 .. MaxTime, cnt : Nat, tot : Nat] /\ failures.cnt <= failures.tot
      /\ failures.cnt <= MaxMinute + 1 /\ failures.tot <= MaxTotal + 1
  BY DEF LoginInv, Record
<1>2. \A c \in Guest : copy[c].time \in 0 .. now
  BY DEF LoginInv
<1>3. MinuteIsBounded
  BY <1>1 DEF LoginInv, InMinuteIsCounted, MinuteIsBounded
<1>4. inMinute \in 0 .. MaxWrong
  BY DEF LoginInv
<1> QED
  BY <1>1, <1>2, <1>3, <1>4 DEF LoginInv, LoginsHold, LoginTypeOK

\* Every wrong password is counted, in its minute and in all, and no minute compares more than its
\* limit allows, unless two connections read the same record before either wrote it back
\* (connection.rs, LOGIN_FAILURES): whatever the limits, and however many connections.
THEOREM FailuresAreCounted == LoginSpec => []LoginsHold
BY LoginInvariance, LoginInvHolds, PTL

\* When the record is over the limit and so is every copy still looked at, nothing is compared and
\* nothing is written.
LEMMA LockedStep ==
  ASSUME Locked, [LoginNext]_loginVars
  PROVE  failures' = failures /\ (LoginInv => Locked')
<1>1. CASE Minute
  BY <1>1 DEF Minute, Locked, Checking
<1>2. ASSUME NEW c \in Guest, Read(c) PROVE failures' = failures /\ (LoginInv => Locked')
  BY <1>2 DEF Read, Locked, Checking, LoginInv
<1>3. ASSUME NEW c \in Guest, RefuseLogin(c) PROVE failures' = failures /\ (LoginInv => Locked')
  BY <1>3 DEF RefuseLogin, Locked, Checking, LoginInv
<1>4. ASSUME NEW c \in Guest, Wrong(c) \/ Right(c) PROVE FALSE
  BY <1>4 DEF Wrong, Right, Compares, Checking, Locked
<1>5. CASE UNCHANGED loginVars
  BY <1>5 DEF loginVars, Locked, Checking
<1> QED
  BY <1>1, <1>2, <1>3, <1>4, <1>5 DEF LoginNext

\* Once an address has failed too often and no earlier copy is left, its record never changes
\* again: not even the right password is compared (failure.2 > 30).
THEOREM NoOneIsComparedAgain == LoginSpec => LockIsForGood
<1>1. [LoginNext]_loginVars => [TooMany(failures) /\ (\A c \in Guest : Checking(c) => TooMany(copy[c].rec))
       => failures' = failures]_loginVars
  BY LockedStep DEF Locked
<1> QED
  BY <1>1, PTL DEF LoginSpec, LockIsForGood

\* And once that is so it is so in every later state.
THEOREM LockedStaysLocked == LoginSpec => [](Locked => []Locked)
<1>1. LoginInv /\ Locked /\ [LoginNext]_loginVars => Locked'
  BY LockedStep
<1> QED
  BY <1>1, LoginInvariance, PTL DEF LoginSpec

-----------------------------------------------------------------------------
(* The parts. *)

\* What a part may do when one of them moves: its own steps, or none.
LEMMA PartsMove ==
  ASSUME [PartsNext]_partsVars
  PROVE  /\ part' = part
         /\ [Next]_vars
         /\ part # "session_refused" => [Host!Next]_(Host!vars)
         /\ part = "session_refused" => [Refused!Next]_(Refused!vars)
         /\ [Windows!Next]_windowsVars
         /\ part # "config_together" => [Stored!Next]_storedVars
         /\ part = "config_together" => [Together!Next]_storedVars
         /\ [Options!Next]_optionsVars
         /\ [Sync!Next]_syncVars
         /\ [Password!Next]_passwordVars
         /\ [WinService!Next]_winServiceVars
         /\ [LinService!Next]_linServiceVars
BY DEF PartsNext, partsVars, Still, CursorSteps, HostSteps, RefusedSteps, LoginSteps, KeySteps,
  AltGrSteps, OnLinuxSteps, ModesSteps, WindowsSteps, StoredSteps, TogetherSteps, OptionsSteps,
  SyncSteps, PasswordSteps, WinServiceSteps, LinServiceSteps, Ended,
  hostVars, Host!vars, Host!life, Host!flags, Host!video, Host!side,
  Refused!vars, Refused!life, Refused!flags, Refused!video, Refused!side

-----------------------------------------------------------------------------
(* The windows of the connection manager (Windows). *)

WindowsTypes ==
  /\ st \in [Conn -> {"none", "new", "launch", "trying", "attached", "alone"}]
  /\ open \subseteq Conn /\ logged \subseteq Conn /\ cut \subseteq Conn
  /\ windowsTries \in [Conn -> 0 .. MaxLooks] /\ at \in [Conn -> Launchable \cup {None}]
  /\ windowsQ \in [Conn -> Seq({"login", "close"})]
  /\ mgr \in [Launchable -> {"none", "starting", "unlink", "bind", "bound", "serving", "exited"}]
  /\ senders \in [Launchable -> SUBSET Conn] /\ probes \in [Launchable -> Nat]
  /\ sock \in Launchable \cup {None} /\ pid \in Launchable \cup {None}

\* Who is attached has a manager that listens, and who has an entry is attached, or was.
WindowsAttached ==
  /\ \A c \in Conn : st[c] = "attached" => at[c] \in Launchable /\ mgr[at[c]] \in {"bound", "serving"}
  /\ \A m \in Launchable : mgr[m] # "exited" =>
       \A c \in senders[m] : st[c] = "attached" /\ at[c] = m

\* What a connection has done so far.
WindowsLives == \A c \in Conn :
  /\ st[c] = "none" => c \notin open /\ c \notin logged
  /\ \A i \in 1 .. Len(windowsQ[c]) : windowsQ[c][i] = "close" => c \notin open /\ st[c] # "none"
  /\ st[c] \in {"none", "new", "launch"} => windowsTries[c] = 0
  /\ st[c] = "trying" => windowsTries[c] < MaxLooks
  /\ st[c] = "alone" /\ c \in open => c \in cut \/ windowsTries[c] \in {0, MaxLooks}
  /\ c \in open \cap logged => \/ st[c] = "alone" \/ windowsQ[c] # <<>>
                               \/ st[c] = "attached" /\ c \in senders[at[c]]

\* Managers that do not look for each other at the wrong time come up one after the other, and the
\* path and the number are those of the one that listens.
WindowsPath == ~overlap =>
  /\ \A m, o \in Launchable : m # o => ~(mgr[m] \in {"unlink", "bind", "bound"} /\ mgr[o] \in {"unlink", "bind", "bound"})
  /\ \A m \in Launchable : mgr[m] \in {"bound", "serving"} => sock = m /\ \A o \in Launchable : mgr[o] # "unlink"
  /\ \A m \in Launchable : mgr[m] = "serving" => pid = m

WindowsInv == overlap \in BOOLEAN /\ WindowsTypes /\ WindowsAttached /\ WindowsLives /\ WindowsPath

LEMMA WindowsBounds == MaxLooks \in Nat \ {0} /\ None \notin Launchable
BY PartsAssumption DEF Windows!ManagerAssumption

LEMMA WindowsInit == Windows!Init => WindowsInv
<1> SUFFICES ASSUME Windows!Init PROVE WindowsInv
  OBVIOUS
<1> USE WindowsBounds DEF Windows!Init
<1>1. WindowsTypes
  <2>1. windowsQ \in [Conn -> Seq({"login", "close"})]
    OBVIOUS
  <2> QED
    BY <2>1 DEF WindowsTypes
<1>2. WindowsAttached /\ WindowsLives /\ WindowsPath
  BY DEF WindowsAttached, WindowsLives, WindowsPath
<1> QED
  BY <1>1, <1>2 DEF WindowsInv

\* A connection comes, logs in and ends.
LEMMA WindowsLifeStep ==
  ASSUME WindowsInv, NEW c \in Conn, Windows!Arrive(c) \/ Windows!LogIn(c) \/ Windows!End(c)
  PROVE  WindowsInv'
<1> USE DEF Windows!conns, Windows!procs
<1>1. CASE Windows!Arrive(c)
  <2>1. WindowsTypes' /\ overlap' \in BOOLEAN
    BY <1>1 DEF Windows!Arrive, WindowsInv, WindowsTypes
  <2>2. WindowsAttached' /\ WindowsLives' /\ WindowsPath'
    BY <1>1 DEF Windows!Arrive, WindowsInv, WindowsTypes, WindowsAttached, WindowsLives, WindowsPath
  <2> QED
    BY <2>1, <2>2 DEF WindowsInv
<1>2. CASE Windows!LogIn(c)
  <2>1. /\ windowsQ' = [windowsQ EXCEPT ![c] = Append(windowsQ[c], "login")] /\ c \in open \ logged /\ logged' = logged \cup {c}
        /\ UNCHANGED <<st, open, windowsTries, at, mgr, senders, probes, sock, pid, overlap, cut>>
    BY <1>2 DEF Windows!LogIn
  <2>2. /\ Append(windowsQ[c], "login") \in Seq({"login", "close"}) /\ Append(windowsQ[c], "login") # <<>>
        /\ \A i \in 1 .. Len(Append(windowsQ[c], "login")) :
             Append(windowsQ[c], "login")[i] = "close" => i \in 1 .. Len(windowsQ[c]) /\ windowsQ[c][i] = "close"
    <3>1. ASSUME NEW s \in Seq({"login", "close"})
          PROVE  /\ Append(s, "login") \in Seq({"login", "close"}) /\ Append(s, "login") # <<>>
                 /\ \A i \in 1 .. Len(Append(s, "login")) : Append(s, "login")[i] = "close" => i \in 1 .. Len(s) /\ s[i] = "close"
      OBVIOUS
    <3>2. windowsQ[c] \in Seq({"login", "close"})
      BY DEF WindowsInv, WindowsTypes
    <3> QED
      BY <3>1, <3>2
  <2>3. WindowsTypes' /\ overlap' \in BOOLEAN
    BY <2>1, <2>2 DEF WindowsInv, WindowsTypes
  <2>4. \A d \in Conn : d # c => windowsQ'[d] = windowsQ[d]
    BY <2>1 DEF WindowsInv, WindowsTypes
  <2>5. windowsQ'[c] = Append(windowsQ[c], "login")
    BY <2>1 DEF WindowsInv, WindowsTypes
  <2>6. WindowsLives'
    BY <2>1, <2>2, <2>4, <2>5 DEF WindowsInv, WindowsLives
  <2>7. WindowsAttached' /\ WindowsPath'
    BY <2>1 DEF WindowsInv, WindowsAttached, WindowsPath
  <2> QED
    BY <2>3, <2>6, <2>7 DEF WindowsInv
<1>3. CASE Windows!End(c)
  <2>1. /\ c \in open /\ open' = open \ {c}
        /\ windowsQ' \in {windowsQ, [windowsQ EXCEPT ![c] = Append(windowsQ[c], "close")]}
        /\ UNCHANGED <<st, logged, windowsTries, at, mgr, senders, probes, sock, pid, overlap, cut>>
    BY <1>3 DEF Windows!End
  <2>2. Append(windowsQ[c], "close") \in Seq({"login", "close"}) /\ windowsQ[c] \in Seq({"login", "close"})
    BY DEF WindowsInv, WindowsTypes
  <2>3. WindowsTypes' /\ overlap' \in BOOLEAN
    BY <2>1, <2>2 DEF WindowsInv, WindowsTypes
  <2>4. \A d \in Conn : d # c => windowsQ'[d] = windowsQ[d]
    BY <2>1 DEF WindowsInv, WindowsTypes
  <2>5. st[c] # "none" /\ c \notin open'
    BY <2>1 DEF WindowsInv, WindowsLives
  <2>6. WindowsLives'
    BY <2>1, <2>4, <2>5 DEF WindowsInv, WindowsLives
  <2>7. WindowsAttached' /\ WindowsPath'
    BY <2>1 DEF WindowsInv, WindowsAttached, WindowsPath
  <2> QED
    BY <2>3, <2>6, <2>7 DEF WindowsInv
<1> QED
  BY <1>1, <1>2, <1>3

\* It looks for a manager, and launches one.
LEMMA WindowsConnectStep == ASSUME WindowsInv, NEW c \in Conn, Windows!Connecting(c) PROVE WindowsInv'
<1> USE WindowsBounds DEF Windows!conns, Windows!procs
<1>1. ASSUME Windows!LookFirst(c) \/ Windows!LookAgain(c) PROVE WindowsInv'
  <2>1. PICK next \in {"launch", "trying", "alone"} :
          /\ IF Windows!Listening(sock) THEN st' = [st EXCEPT ![c] = "attached"] /\ at' = [at EXCEPT ![c] = sock]
             ELSE st' = [st EXCEPT ![c] = next] /\ at' = at
          /\ UNCHANGED <<open, logged, windowsQ, mgr, senders, probes, sock, pid, overlap, cut>>
          /\ \/ st[c] = "new" /\ next = "launch" /\ windowsTries' = windowsTries
             \/ /\ st[c] = "trying" /\ windowsTries' = [windowsTries EXCEPT ![c] = @ + 1]
                /\ next = IF windowsTries[c] + 1 >= MaxLooks THEN "alone" ELSE "trying"
    BY <1>1 DEF Windows!LookFirst, Windows!LookAgain, Windows!Attach
  <2>2. windowsTries' \in [Conn -> 0 .. MaxLooks] /\ \A d \in Conn : d # c => windowsTries'[d] = windowsTries[d]
    BY <2>1 DEF WindowsInv, WindowsTypes, WindowsLives
  <2>3. /\ next = "alone" => windowsTries'[c] = MaxLooks
        /\ next = "trying" => windowsTries'[c] < MaxLooks
        /\ next = "launch" => windowsTries'[c] = 0
    BY <2>1 DEF WindowsInv, WindowsTypes, WindowsLives
  <2>4. Windows!Listening(sock) => sock \in Launchable /\ mgr[sock] \in {"bound", "serving"}
    BY DEF Windows!Listening, WindowsInv, WindowsTypes
  <2>5. /\ st' \in [Conn -> {"none", "new", "launch", "trying", "attached", "alone"}] /\ at' \in [Conn -> Launchable \cup {None}]
        /\ \A d \in Conn : d # c => st'[d] = st[d] /\ at'[d] = at[d]
        /\ st'[c] \in {"attached", next} /\ (st'[c] = "attached" => at'[c] = sock /\ Windows!Listening(sock))
    BY <2>1, <2>4 DEF WindowsInv, WindowsTypes
  <2>6. WindowsTypes' /\ overlap' \in BOOLEAN
    BY <2>1, <2>2, <2>5 DEF WindowsInv, WindowsTypes
  <2>7. WindowsAttached'
    BY <2>1, <2>4, <2>5 DEF WindowsInv, WindowsTypes, WindowsAttached
  <2>8. WindowsLives'
    BY <2>1, <2>2, <2>3, <2>5 DEF WindowsInv, WindowsLives
  <2>9. WindowsPath'
    BY <2>1 DEF WindowsInv, WindowsPath
  <2> QED
    BY <2>6, <2>7, <2>8, <2>9 DEF WindowsInv
<1>2. ASSUME Windows!Launch(c) PROVE WindowsInv'
  <2>1. /\ st[c] = "launch" /\ st' \in {[st EXCEPT ![c] = "trying"], [st EXCEPT ![c] = "alone"]}
        /\ mgr' = mgr \/ \E m \in Launchable : mgr[m] = "none" /\ mgr' = [mgr EXCEPT ![m] = "starting"]
        /\ UNCHANGED <<open, logged, windowsTries, at, windowsQ, senders, probes, sock, pid, overlap, cut>>
    BY <1>2 DEF Windows!Launch
  <2>2. WindowsTypes' /\ overlap' \in BOOLEAN
    BY <2>1 DEF WindowsInv, WindowsTypes
  <2>3. \A m \in Launchable : mgr'[m] = mgr[m] \/ (mgr[m] = "none" /\ mgr'[m] = "starting")
    BY <2>1 DEF WindowsInv, WindowsTypes
  <2>4. \A d \in Conn : d # c => st'[d] = st[d]
    BY <2>1 DEF WindowsInv, WindowsTypes
  <2>5. st'[c] \in {"trying", "alone"} /\ windowsTries[c] = 0
    BY <2>1 DEF WindowsInv, WindowsTypes, WindowsLives
  <2>6. WindowsAttached'
    <3>1. /\ \A d \in Conn : st'[d] = "attached" <=> st[d] = "attached"
          /\ at' = at /\ senders' = senders
      BY <2>1, <2>4, <2>5
    <3>2. \A m \in Launchable : /\ mgr[m] \in {"bound", "serving"} => mgr'[m] = mgr[m]
                                /\ mgr'[m] # "exited" => mgr[m] # "exited"
      BY <2>3
    <3>3. \A d \in Conn : st'[d] = "attached" => at'[d] \in Launchable /\ mgr'[at'[d]] \in {"bound", "serving"}
      <4> SUFFICES ASSUME NEW d \in Conn, st'[d] = "attached" PROVE at[d] \in Launchable /\ mgr'[at[d]] \in {"bound", "serving"}
        BY <3>1
      <4>1. at[d] \in Launchable /\ mgr[at[d]] \in {"bound", "serving"}
        BY <3>1 DEF WindowsInv, WindowsAttached
      <4> QED
        BY <3>2, <4>1
    <3>4. \A m \in Launchable : mgr'[m] # "exited" => \A d \in senders'[m] : st'[d] = "attached" /\ at'[d] = m
      <4> SUFFICES ASSUME NEW m \in Launchable, mgr'[m] # "exited", NEW d \in senders[m] PROVE st'[d] = "attached" /\ at[d] = m
        BY <3>1
      <4>1. d \in Conn
        BY DEF WindowsInv, WindowsTypes
      <4>2. st[d] = "attached" /\ at[d] = m
        BY <3>2 DEF WindowsInv, WindowsAttached
      <4> QED
        BY <3>1, <4>1, <4>2
    <3> QED
      BY <3>3, <3>4 DEF WindowsAttached
  <2>7. WindowsLives'
    BY <2>1, <2>4, <2>5 DEF WindowsInv, WindowsLives
  <2>8. WindowsPath'
    BY <2>1, <2>3 DEF WindowsInv, WindowsPath
  <2> QED
    BY <2>2, <2>6, <2>7, <2>8 DEF WindowsInv
<1> QED
  BY <1>1, <1>2 DEF Windows!Connecting

\* A manager starts.
LEMMA WindowsStartStep == ASSUME WindowsInv, NEW m \in Launchable, Windows!Starting(m) PROVE WindowsInv'
<1> USE WindowsBounds DEF Windows!conns, Windows!procs
<1>1. /\ UNCHANGED <<st, open, logged, windowsTries, at, windowsQ, senders, cut>>
      /\ mgr[m] \in {"starting", "unlink", "bind", "bound"}
      /\ \E x \in {"unlink", "bind", "bound", "serving", "exited"} : mgr' = [mgr EXCEPT ![m] = x]
      /\ mgr[m] = "bound" => mgr'[m] = "serving"
  BY DEF Windows!Starting, Windows!Check, Windows!Unlink, Windows!Bind, Windows!WritePid, WindowsInv, WindowsTypes
<1>2. WindowsTypes'
  <2>1. sock' \in Launchable \cup {None} /\ pid' \in Launchable \cup {None}
    BY DEF Windows!Starting, Windows!Check, Windows!Unlink, Windows!Bind, Windows!WritePid, WindowsInv, WindowsTypes
  <2>2. probes' \in [Launchable -> Nat]
    BY DEF Windows!Starting, Windows!Check, Windows!Unlink, Windows!Bind, Windows!WritePid, WindowsInv, WindowsTypes,
      Windows!Listening
  <2> QED
    BY <1>1, <2>1, <2>2 DEF WindowsInv, WindowsTypes
<1>3. overlap' \in BOOLEAN
  <2>1. overlap' = overlap \/ overlap' = (overlap \/ Windows!Overlaps(m))
    BY DEF Windows!Starting, Windows!Check, Windows!Unlink, Windows!Bind, Windows!WritePid
  <2> QED
    BY <2>1, Zenon DEF WindowsInv
<1>4. WindowsAttached'
  <2>1. \A o \in Launchable : o # m => mgr'[o] = mgr[o]
    BY <1>1 DEF WindowsInv, WindowsTypes
  <2>2. ASSUME NEW c \in Conn, st[c] = "attached" PROVE at[c] \in Launchable /\ mgr'[at[c]] \in {"bound", "serving"}
    BY <1>1, <2>1, <2>2 DEF WindowsInv, WindowsAttached
  <2>3. \A c \in senders[m] : st[c] = "attached" /\ at[c] = m
    BY <1>1 DEF WindowsInv, WindowsAttached
  <2> QED
    BY <1>1, <2>1, <2>2, <2>3 DEF WindowsInv, WindowsAttached
<1>5. WindowsLives'
  BY <1>1 DEF WindowsInv, WindowsLives
<1>6. WindowsPath'
  <2> SUFFICES ASSUME ~overlap' PROVE WindowsPath'
    BY DEF WindowsPath
  <2>1. ~overlap
    BY DEF Windows!Starting, Windows!Check, Windows!Unlink, Windows!Bind, Windows!WritePid
  <2>2. CASE Windows!Check(m)
    <3>1. \A o \in Launchable \ {m} : mgr[o] \notin {"unlink", "bind", "bound"}
      BY <2>2 DEF Windows!Check, Windows!Overlaps
    <3>2. mgr[m] = "starting" /\ sock' = sock /\ pid' = pid
          /\ (mgr' = [mgr EXCEPT ![m] = "bind"] \/
              (mgr' = [mgr EXCEPT ![m] = "unlink"] /\
               ~(pid # None /\ pid # m /\ Windows!Running(pid) /\ Windows!Listening(sock))))
      BY <2>2 DEF Windows!Check
    <3>3. \A o \in Launchable : mgr[o] \in {"bound", "serving"} =>
            mgr[o] = "serving" /\ pid = o /\ sock = o /\ o # m /\ o # None /\ Windows!Running(o) /\ Windows!Listening(o)
      BY <2>1, <3>1, <3>2 DEF WindowsInv, WindowsPath, Windows!Running, Windows!Listening
    <3> QED
      BY <2>1, <3>1, <3>2, <3>3 DEF WindowsInv, WindowsTypes, WindowsPath
  <2>3. CASE Windows!Unlink(m)
    BY <2>1, <2>3 DEF Windows!Unlink, WindowsInv, WindowsTypes, WindowsPath
  <2>4. CASE Windows!Bind(m)
    BY <2>1, <2>4 DEF Windows!Bind, WindowsInv, WindowsTypes, WindowsPath
  <2>5. CASE Windows!WritePid(m)
    BY <2>1, <2>5 DEF Windows!WritePid, WindowsInv, WindowsTypes, WindowsPath
  <2> QED
    BY <2>2, <2>3, <2>4, <2>5 DEF Windows!Starting
<1> QED
  BY <1>2, <1>3, <1>4, <1>5, <1>6 DEF WindowsInv

\* An entry goes, and with the last the manager.
LEMMA WindowsRemoved ==
  ASSUME WindowsInv, NEW m \in Launchable, NEW gone2 \in SUBSET Conn, Windows!Listening(m), Windows!Removed(m, gone2),
         gone2 \subseteq Windows!AttachedTo(m), gone2 \cap open = {}, probes' \in [Launchable -> Nat],
         UNCHANGED <<open, logged, windowsTries, at, windowsQ, sock, pid, overlap>>
  PROVE  WindowsInv'
<1>1. \A c \in Conn : c \in Windows!AttachedTo(m) <=> st[c] = "attached" /\ at[c] = m
  BY DEF Windows!AttachedTo
<1>2. senders' = [senders EXCEPT ![m] = senders[m] \ gone2] /\ mgr[m] \in {"bound", "serving"}
  BY DEF Windows!Removed, Windows!Listening
<1>3. CASE senders[m] \ gone2 = {}
  <2>1. /\ mgr' = [mgr EXCEPT ![m] = "exited"]
        /\ st' = [c \in Conn |-> IF c \in Windows!AttachedTo(m) THEN "alone" ELSE st[c]]
        /\ cut' = cut \cup (Windows!AttachedTo(m) \ gone2)
    BY <1>3 DEF Windows!Removed
  <2>2. WindowsTypes'
    BY <1>2, <2>1 DEF WindowsInv, WindowsTypes, Windows!AttachedTo
  <2>3. WindowsAttached'
    BY <1>1, <1>2, <2>1 DEF WindowsInv, WindowsTypes, WindowsAttached
  <2>4. \A c \in Conn : st'[c] # st[c] => st'[c] = "alone" /\ st[c] = "attached" /\ (c \in open => c \in cut')
    BY <1>1, <2>1 DEF WindowsInv, WindowsTypes
  <2>5. \A c \in Conn : st'[c] = "attached" => at[c] # m /\ senders'[at[c]] = senders[at[c]]
    BY <1>1, <1>2, <2>1 DEF WindowsInv, WindowsTypes, WindowsAttached
  <2>6. WindowsLives'
    BY <2>1, <2>4, <2>5 DEF WindowsInv, WindowsLives
  <2>7. WindowsPath'
    BY <1>2, <2>1 DEF WindowsInv, WindowsTypes, WindowsPath
  <2> QED
    BY <2>2, <2>3, <2>6, <2>7 DEF WindowsInv
<1>4. CASE senders[m] \ gone2 # {}
  <2>1. mgr' = mgr /\ cut' = cut /\ st' = [c \in Conn |-> IF c \in gone2 THEN "alone" ELSE st[c]]
    BY <1>4 DEF Windows!Removed
  <2>2. WindowsTypes'
    BY <1>2, <2>1 DEF WindowsInv, WindowsTypes
  <2>3. WindowsAttached'
    BY <1>1, <1>2, <2>1 DEF WindowsInv, WindowsTypes, WindowsAttached
  <2>4. \A c \in Conn : st'[c] # st[c] => st'[c] = "alone" /\ st[c] = "attached" /\ c \notin open
    BY <1>1, <2>1 DEF WindowsInv, WindowsTypes
  <2>5. \A c \in Conn : c \in open /\ st[c] = "attached" /\ c \in senders[at[c]] => c \in senders'[at[c]] /\ st'[c] = st[c]
    BY <1>1, <1>2, <2>1 DEF WindowsInv, WindowsTypes, WindowsAttached
  <2>6. WindowsLives'
    BY <2>1, <2>4, <2>5 DEF WindowsInv, WindowsLives
  <2>7. WindowsPath'
    BY <2>1 DEF WindowsInv, WindowsPath
  <2> QED
    BY <2>2, <2>3, <2>6, <2>7 DEF WindowsInv
<1> QED
  BY <1>3, <1>4

LEMMA WindowsWorkStep == ASSUME WindowsInv, NEW m \in Launchable, Windows!Working(m) PROVE WindowsInv'
<1>1. CASE Windows!ProbeEnds(m)
  <2>1. probes' \in [Launchable -> Nat]
    BY <1>1 DEF Windows!ProbeEnds, WindowsInv, WindowsTypes
  <2> QED
    BY <1>1, <2>1, WindowsRemoved DEF Windows!ProbeEnds
<1>2. ASSUME NEW c \in Conn, Windows!Receive(m, c) PROVE WindowsInv'
  <2>1. /\ Windows!Listening(m) /\ c \in Windows!AttachedTo(m) /\ st[c] = "attached" /\ at[c] = m
        /\ UNCHANGED <<open, logged, windowsTries, at, probes, sock, pid, overlap>>
    BY <1>2 DEF Windows!Receive, Windows!AttachedTo
  <2>2. windowsQ[c] \in Seq({"login", "close"}) /\ probes \in [Launchable -> Nat]
    BY DEF WindowsInv, WindowsTypes
  <2>3. CASE /\ windowsQ[c] # <<>> /\ Head(windowsQ[c]) = "login"
             /\ windowsQ' = [windowsQ EXCEPT ![c] = Tail(windowsQ[c])]
             /\ senders' = [senders EXCEPT ![m] = senders[m] \cup {c}]
             /\ UNCHANGED <<st, mgr, cut>>
    <3>1. /\ Tail(windowsQ[c]) \in Seq({"login", "close"})
          /\ \A i \in 1 .. Len(Tail(windowsQ[c])) :
               i + 1 \in 1 .. Len(windowsQ[c]) /\ Tail(windowsQ[c])[i] = windowsQ[c][i + 1]
      BY <2>2, <2>3
    <3>2. windowsQ'[c] = Tail(windowsQ[c]) /\ \A d \in Conn : d # c => windowsQ'[d] = windowsQ[d]
      BY <2>3 DEF WindowsInv, WindowsTypes
    <3>3. c \in senders'[m] /\ \A o \in Launchable : senders[o] \subseteq senders'[o] /\ (o # m => senders'[o] = senders[o])
      BY <2>3 DEF WindowsInv, WindowsTypes
    <3>4. WindowsTypes'
      BY <2>1, <2>3, <3>1 DEF WindowsInv, WindowsTypes
    <3>5. WindowsAttached'
      BY <2>1, <2>3 DEF WindowsInv, WindowsTypes, WindowsAttached
    <3>6. WindowsLives'
      BY <2>1, <2>3, <3>1, <3>2, <3>3 DEF WindowsInv, WindowsAttached, WindowsLives
    <3>7. WindowsPath' /\ overlap' \in BOOLEAN
      BY <2>1, <2>3 DEF WindowsInv, WindowsPath
    <3> QED
      BY <3>4, <3>5, <3>6, <3>7 DEF WindowsInv
  <2>4. CASE /\ IF windowsQ[c] = <<>> THEN c \notin open ELSE Head(windowsQ[c]) = "close"
             /\ Windows!Removed(m, {c}) /\ windowsQ' = windowsQ
    <3>1. windowsQ[c] # <<>> => 1 \in 1 .. Len(windowsQ[c]) /\ Head(windowsQ[c]) = windowsQ[c][1]
      BY <2>2
    <3>2. c \notin open
      BY <2>4, <3>1 DEF WindowsInv, WindowsLives
    <3> QED
      BY <2>1, <2>2, <2>4, <3>2, WindowsRemoved
  <2> QED
    BY <1>2, <2>3, <2>4 DEF Windows!Receive
<1> QED
  BY <1>1, <1>2 DEF Windows!Working

LEMMA WindowsStep == ASSUME WindowsInv, [Windows!Next]_windowsVars PROVE WindowsInv'
<1>1. CASE UNCHANGED windowsVars
  BY <1>1 DEF windowsVars, WindowsInv, WindowsTypes, WindowsAttached, WindowsLives, WindowsPath
<1> QED
  BY <1>1, WindowsLifeStep, WindowsConnectStep, WindowsStartStep, WindowsWorkStep DEF Windows!Next

-----------------------------------------------------------------------------
(* The sessions, for every setting of theirs.                              *)

\* A setting has what the peer's configuration says of files, and what may go wrong.
Kept(z) == INSTANCE Session WITH
  StoredNo <- z.no, Fault <- z.fault,
  phase <- hostPhase, perm <- hostPerm, subs <- hostSubs,
  stale <- hostStale, up <- hostUp, down <- hostDown, cm <- hostCm, events <- hostEvents

ToWindow(z) ==
  [m : {"close"}] \cup [m : {"clip"}, on : BOOLEAN]
    \cup [m : {"login"}, auth : BOOLEAN, perm : SUBSET Kept(z)!Perm, clip : BOOLEAN]
FromWindow(z) == [m : {"authorize", "close"}] \cup [m : {"switch"}, name : Kept(z)!Perm, on : BOOLEAN]

\* The types, and those of the queues.
SessionTypes(z) ==
  /\ hostPhase \in {"new", "open", "tunnel", "ended"}
  /\ exit \in {"none", "closedDoor", "refused", "failed", "timeout", "idle", "asked", "tunnel", "panic"}
  /\ hostPerm \subseteq Kept(z)!Perm /\ opt \subseteq Kept(z)!Option /\ kind \subseteq {"files", "tunnel"}
  /\ hostSubs \subseteq Kept(z)!Services /\ entries \subseteq {"quality", "latency"}
  /\ hostCm \in {"starting", "waiting", "shown", "gone"}
  /\ ui \in [auth : BOOLEAN, perm : SUBSET Kept(z)!Perm]
  /\ hostUp \in Seq(ToWindow(z)) /\ hostDown \in Seq(FromWindow(z))
SessionFlags ==
  /\ auth \in BOOLEAN /\ hostStale \in BOOLEAN /\ gone \in BOOLEAN
  /\ switched \in BOOLEAN /\ unsent \in BOOLEAN /\ clip \in BOOLEAN

\* on_close was called by who has ended, and the window is told last of all.
SessionLife(z) ==
  /\ Kept(z)!Ended <=> exit # "none"
  /\ closes \in {0, 1} /\ (~Kept(z)!Ended => closes = 0) /\ Kept(z)!ClosedOnce
  /\ closes = 1 /\ hostCm # "gone" => hostUp # <<>> /\ hostUp[Len(hostUp)].m = "close"
  /\ hostCm \in {"starting", "waiting"} => ~clip /\ hostDown = <<>>
  /\ hostCm = "gone" => hostUp = <<>> /\ (~Kept(z)!Ended => ~clip)
  /\ hostPhase = "new" \/ exit = "closedDoor" => hostUp = <<>> /\ hostCm # "shown" /\ hostSubs = {} /\ entries = {} /\ ~clip
  /\ hostPhase = "tunnel" => entries = {}
  /\ Kept(z)!LeftBehind

\* No one is subscribed to more than the flags allow, and who is let in to no less.
SessionSubs(z) ==
  /\ Kept(z)!TunnelIsNotSession
  /\ "video" \in hostSubs => auth
  /\ "audio" \in hostSubs => Kept(z)!AudioAllowed(hostPerm, opt)
  /\ "cursor" \in hostSubs => Kept(z)!CursorAllowed(hostPerm, opt)
  /\ "pos" \in hostSubs => "cursor" \in opt
  /\ "clipboard" \in hostSubs /\ ~switched => Kept(z)!ClipboardAllowed(hostPerm, opt)
  /\ "video" \in hostSubs =>
       /\ Kept(z)!AudioAllowed(hostPerm, opt) => "audio" \in hostSubs
       /\ Kept(z)!CursorAllowed(hostPerm, opt) => "cursor" \in hostSubs
       /\ "cursor" \in opt => "pos" \in hostSubs
       /\ ~switched /\ Kept(z)!ClipboardAllowed(hostPerm, opt) => "clipboard" \in hostSubs

\* The last that the window will hear of the files is so; a login is told as it was.
TellsFiles(i) == hostUp[i].m \in {"login", "clip"}
ToldFiles(i) == IF hostUp[i].m = "login" THEN hostUp[i].clip ELSE hostUp[i].on
WindowHears(z) == hostPhase = "open" =>
  /\ \A i \in 1 .. Len(hostUp) : hostUp[i].m = "login" =>
       (hostUp[i].auth => auth) /\ (hostCm \in {"starting", "waiting"} => hostUp[i].perm = hostPerm)
  /\ \A i \in 1 .. Len(hostUp) : TellsFiles(i) /\ (\A j \in 1 .. Len(hostUp) : j > i => ~TellsFiles(j)) =>
       (ToldFiles(i) <=> Kept(z)!FilesAllowed(hostPerm, opt))
  /\ hostCm = "shown" /\ (\A i \in 1 .. Len(hostUp) : ~TellsFiles(i)) => (clip <=> Kept(z)!FilesAllowed(hostPerm, opt))

\* The last that the connection will hear of a permission is what the window shows.
SwitchesTo(d, i, n) == d[i].m = "switch" /\ d[i].name = n
WindowSaid(z, p, a, u, d, x) ==
  /\ u.auth => a \/ \E i \in 1 .. Len(d) : d[i].m = "authorize"
  /\ \A n \in Kept(z)!Perm : \A i \in 1 .. Len(d) :
       SwitchesTo(d, i, n) /\ (\A j \in 1 .. Len(d) : j > i => ~SwitchesTo(d, j, n)) => (d[i].on <=> n \in u.perm)
  /\ \A n \in Kept(z)!Perm : (\A i \in 1 .. Len(d) : ~SwitchesTo(d, i, n)) =>
       (n \in u.perm <=> n \in p) \/ (n = "file" /\ z.no) \/ (n = "audio" /\ x)
WindowSays(z) == hostPhase = "open" /\ hostCm = "shown" => WindowSaid(z, hostPerm, auth, ui, hostDown, unsent)

SessionInv(z) ==
  SessionTypes(z) /\ SessionFlags /\ SessionLife(z) /\ SessionSubs(z) /\ WindowHears(z) /\ WindowSays(z) /\ "audio" \notin ui.perm

\* The queues, when a message comes or goes.
LEMMA SessionQueue ==
  ASSUME NEW T, NEW m \in T, NEW s \in Seq(T)
  PROVE  /\ Append(s, m) \in Seq(T) /\ Len(Append(s, m)) = Len(s) + 1 /\ Append(s, m) # <<>>
         /\ \A i \in 1 .. Len(s) + 1 : Append(s, m)[i] = IF i = Len(s) + 1 THEN m ELSE s[i]
         /\ Len(s) \in Nat
OBVIOUS

LEMMA SessionQueueHead ==
  ASSUME NEW T, NEW s \in Seq(T), s # <<>>
  PROVE  /\ Tail(s) \in Seq(T) /\ Head(s) \in T /\ Head(s) = s[1]
         /\ Len(s) \in Nat /\ 1 \in 1 .. Len(s) /\ Len(Tail(s)) = Len(s) - 1
         /\ \A i \in 1 .. Len(s) - 1 : Tail(s)[i] = s[i + 1] /\ i + 1 \in 1 .. Len(s)
OBVIOUS

LEMMA SessionUpMessages ==
  ASSUME NEW z
  PROVE
  /\ [m |-> "close"] \in ToWindow(z)
  /\ \A b \in BOOLEAN : [m |-> "clip", on |-> b] \in ToWindow(z)
  /\ \A b, c \in BOOLEAN : \A p \in SUBSET Kept(z)!Perm : [m |-> "login", auth |-> b, perm |-> p, clip |-> c] \in ToWindow(z)
  /\ \A u \in ToWindow(z) : /\ u.m \in {"close", "clip", "login"}
                            /\ u.m = "clip" => u.on \in BOOLEAN
                            /\ u.m = "login" => u.auth \in BOOLEAN /\ u.perm \in SUBSET Kept(z)!Perm /\ u.clip \in BOOLEAN
BY DEF ToWindow

LEMMA SessionDownMessages ==
  ASSUME NEW z
  PROVE
  /\ [m |-> "close"] \in FromWindow(z) /\ [m |-> "authorize"] \in FromWindow(z)
  /\ \A n \in Kept(z)!Perm : \A b \in BOOLEAN : [m |-> "switch", name |-> n, on |-> b] \in FromWindow(z)
  /\ \A d \in FromWindow(z) : /\ d.m \in {"close", "authorize", "switch"}
                              /\ d.m = "switch" => d.name \in Kept(z)!Perm /\ d.on \in BOOLEAN
BY DEF FromWindow

LEMMA SessionInit == ASSUME NEW z, Kept(z)!SessionAssumption, Kept(z)!Init PROVE SessionInv(z)
<1> USE DEF Kept!SessionAssumption, Kept!Init
<1>1. SessionTypes(z)
  <2>1. hostUp \in Seq(ToWindow(z)) /\ hostDown \in Seq(FromWindow(z))
    OBVIOUS
  <2>2. ui \in [auth : BOOLEAN, perm : SUBSET Kept(z)!Perm]
    OBVIOUS
  <2> QED
    BY <2>1, <2>2 DEF SessionTypes
<1>2. SessionFlags
  BY DEF SessionFlags
<1>3. SessionLife(z)
  BY DEF SessionLife, Kept!ClosedOnce, Kept!LeftBehind, Kept!Ended
<1>4. SessionSubs(z)
  BY DEF SessionSubs, Kept!TunnelIsNotSession
<1>5. WindowHears(z) /\ WindowSays(z) /\ "audio" \notin ui.perm
  BY DEF WindowHears, WindowSays
<1> QED
  BY <1>1, <1>2, <1>3, <1>4, <1>5 DEF SessionInv

\* on_close.
LEMMA SessionCloseStep ==
  ASSUME NEW z, SessionInv(z), NEW how \in {"failed", "timeout", "idle", "asked", "tunnel"}, Kept(z)!OnClose(how),
         hostPhase \in {"open", "tunnel"}, entries' = {} \/ (entries' = entries /\ (how = "idle" \/ hostPhase = "tunnel"))
  PROVE  SessionInv(z)'
<1> USE DEF Kept!OnClose, Kept!side
<1>1. SessionTypes(z)'
  <2>1. hostUp' \in Seq(ToWindow(z)) /\ hostDown' \in Seq(FromWindow(z))
    BY SessionUpMessages, SessionQueue DEF SessionInv, SessionTypes, Kept!Tell
  <2> QED
    BY <2>1 DEF SessionInv, SessionTypes
<1>2. SessionFlags'
  BY DEF SessionInv, SessionFlags
<1>3. SessionLife(z)'
  <2>1. hostCm # "gone" => hostUp' # <<>> /\ hostUp'[Len(hostUp')].m = "close"
    BY SessionUpMessages, SessionQueue DEF SessionInv, SessionTypes, Kept!Tell
  <2>2. closes = 0 /\ closes' = 1 /\ hostPhase' = "ended" /\ exit' = how /\ hostSubs' = {} /\ hostDown' = <<>>
         /\ hostCm' = hostCm /\ clip' = clip
    BY DEF SessionInv, SessionLife, Kept!Ended
  <2>3. /\ (hostCm = "gone" \/ hostCm \in {"starting", "waiting"}) => ~clip
        /\ hostCm = "gone" => hostUp' = <<>>
    BY DEF SessionInv, SessionLife, Kept!Ended, Kept!Tell
  <2>4. entries' = {} \/ how = "idle"
    BY DEF SessionInv, SessionLife, Kept!Ended
  <2> QED
    BY <2>1, <2>2, <2>3, <2>4 DEF SessionLife, Kept!ClosedOnce, Kept!LeftBehind, Kept!Ended
<1>4. SessionSubs(z)'
  BY DEF SessionInv, SessionTypes, SessionSubs, Kept!TunnelIsNotSession
<1>5. WindowHears(z)' /\ WindowSays(z)' /\ "audio" \notin ui'.perm
  BY DEF SessionInv, WindowHears, WindowSays
<1> QED
  BY <1>1, <1>2, <1>3, <1>4, <1>5 DEF SessionInv

LEMMA SessionPanicStep ==
  ASSUME NEW z, SessionInv(z), Kept(z)!Panics, hostPhase \in {"open", "tunnel"}
  PROVE  SessionInv(z)'
<1> USE DEF Kept!Panics, Kept!side, Kept!flags
<1>1. SessionTypes(z)'
  BY DEF SessionInv, SessionTypes
<1>2. SessionFlags'
  BY DEF SessionInv, SessionFlags
<1>3. SessionLife(z)'
  BY DEF SessionInv, SessionLife, Kept!ClosedOnce, Kept!LeftBehind, Kept!Ended
<1>4. SessionSubs(z)'
  BY DEF SessionInv, SessionSubs, Kept!TunnelIsNotSession
<1>5. WindowHears(z)' /\ WindowSays(z)' /\ "audio" \notin ui'.perm
  BY DEF SessionInv, WindowHears, WindowSays
<1> QED
  BY <1>1, <1>2, <1>3, <1>4, <1>5 DEF SessionInv

\* The ways a session ends.
LEMMA SessionEndStep ==
  ASSUME NEW z, SessionInv(z), Kept(z)!Fails \/ Kept(z)!Timeout \/ Kept(z)!IdleOut \/ Kept(z)!TunnelEnds
         \/ Kept(z)!CloseRequested \/ Kept(z)!FileAction
  PROVE  SessionInv(z)'
<1>1. CASE Kept(z)!Fails
  BY <1>1, SessionCloseStep, SessionPanicStep DEF Kept!Fails, Kept!CloseLoop, Kept!AfterLoop
<1>2. CASE Kept(z)!Timeout
  BY <1>2, SessionCloseStep, SessionPanicStep DEF Kept!Timeout, Kept!CloseLoop, Kept!AfterLoop
<1>3. CASE Kept(z)!IdleOut
  BY <1>3, SessionCloseStep, SessionPanicStep DEF Kept!IdleOut
<1>4. CASE Kept(z)!TunnelEnds
  BY <1>4, SessionCloseStep, SessionPanicStep DEF Kept!TunnelEnds
<1>5. CASE Kept(z)!CloseRequested
  BY <1>5, SessionCloseStep, SessionPanicStep DEF Kept!CloseRequested, Kept!AfterLoop
<1>6. CASE Kept(z)!FileAction
  BY <1>6, SessionPanicStep DEF Kept!FileAction
<1> QED
  BY <1>1, <1>2, <1>3, <1>4, <1>5, <1>6

\* It begins; and what changes no more than the clocks.
LEMMA SessionQuietStep ==
  ASSUME NEW z, SessionInv(z), Kept(z)!Open \/ Kept(z)!Message \/ Kept(z)!TestDelay \/ Kept(z)!GrowsStale \/ Kept(z)!Vanish
  PROVE  SessionInv(z)'
<1> USE DEF Kept!Open, Kept!Message, Kept!TestDelay, Kept!GrowsStale, Kept!Vanish, Kept!side, Kept!flags, Kept!video,
  Kept!life
<1>1. SessionTypes(z)'
  BY DEF SessionInv, SessionTypes
<1>2. SessionFlags'
  <2>1. hostStale' \in BOOLEAN /\ gone' \in BOOLEAN
    BY Zenon DEF SessionInv, SessionFlags
  <2> QED
    BY <2>1 DEF SessionInv, SessionFlags
<1>3. SessionLife(z)'
  BY DEF SessionInv, SessionLife, Kept!ClosedOnce, Kept!LeftBehind, Kept!Ended
<1>4. SessionSubs(z)'
  BY DEF SessionInv, SessionSubs, Kept!TunnelIsNotSession
<1>5. WindowHears(z)' /\ WindowSays(z)' /\ "audio" \notin ui'.perm
  <2>1. CASE hostPhase = "new"
    BY <2>1 DEF SessionInv, SessionLife, WindowHears, WindowSays
  <2>2. CASE hostPhase # "new"
    BY <2>2 DEF SessionInv, WindowHears, WindowSays, TellsFiles, ToldFiles
  <2> QED
    BY <2>1, <2>2
<1> QED
  BY <1>1, <1>2, <1>3, <1>4, <1>5 DEF SessionInv

\* The connection tells the window, or has nothing to tell it.
LEMMA SessionHears ==
  ASSUME NEW z, SessionInv(z), hostPhase = "open", NEW m \in ToWindow(z), m.m \in {"login", "clip"}, Kept(z)!Tell(m),
         hostCm' = hostCm /\ clip' = clip /\ (auth => auth') /\ (hostCm \in {"starting", "waiting"} => hostPerm' = hostPerm),
         m.m = "login" => (m.auth => auth') /\ m.perm = hostPerm',
         (IF m.m = "login" THEN m.clip ELSE m.on) <=> Kept(z)!FilesAllowed(hostPerm', opt')
  PROVE  WindowHears(z)' /\ hostUp' \in Seq(ToWindow(z)) /\ (hostCm = "gone" => hostUp' = <<>>)
<1>1. CASE hostCm = "gone"
  BY <1>1 DEF SessionInv, SessionTypes, SessionLife, WindowHears, Kept!Tell
<1>2. CASE hostCm # "gone"
  <2>1. /\ hostUp' = Append(hostUp, m) /\ hostUp' \in Seq(ToWindow(z)) /\ Len(hostUp') = Len(hostUp) + 1 /\ Len(hostUp) \in Nat
        /\ \A i \in 1 .. Len(hostUp) + 1 : hostUp'[i] = IF i = Len(hostUp) + 1 THEN m ELSE hostUp[i]
    BY <1>2, SessionQueue DEF SessionInv, SessionTypes, Kept!Tell
  <2>2. ASSUME NEW i \in 1 .. Len(hostUp'), hostUp'[i].m = "login"
        PROVE  (hostUp'[i].auth => auth') /\ (hostCm' \in {"starting", "waiting"} => hostUp'[i].perm = hostPerm')
    BY <2>1, <2>2 DEF SessionInv, WindowHears
  <2>3. ASSUME NEW i \in 1 .. Len(hostUp'), \A j \in 1 .. Len(hostUp') : j > i => ~TellsFiles(j)'
        PROVE  ToldFiles(i)' <=> Kept(z)!FilesAllowed(hostPerm', opt')
    <3>1. i = Len(hostUp) + 1
      BY <2>1, <2>3 DEF TellsFiles
    <3> QED
      BY <2>1, <3>1 DEF ToldFiles
  <2>4. Len(hostUp') \in 1 .. Len(hostUp') /\ hostUp'[Len(hostUp')].m \in {"login", "clip"}
    BY <2>1
  <2>5. \E i \in 1 .. Len(hostUp') : TellsFiles(i)'
    BY <2>4 DEF TellsFiles
  <2> QED
    BY <1>2, <2>1, <2>2, <2>3, <2>5 DEF WindowHears
<1> QED
  BY <1>1, <1>2

LEMMA SessionHearsNothing ==
  ASSUME NEW z, SessionInv(z), hostPhase = "open", hostUp' = hostUp,
         hostCm' = hostCm /\ clip' = clip /\ (auth => auth') /\ (hostCm \in {"starting", "waiting"} => hostPerm' = hostPerm),
         Kept(z)!FilesAllowed(hostPerm', opt') <=> Kept(z)!FilesAllowed(hostPerm, opt)
  PROVE  WindowHears(z)'
BY DEF SessionInv, WindowHears, TellsFiles, ToldFiles

\* update_option.
LEMMA SessionOptionStep ==
  ASSUME NEW z, SessionInv(z), NEW x \in Kept(z)!Option, NEW q \in BOOLEAN, NEW l \in BOOLEAN, Kept(z)!SetOption(x, q, l)
  PROVE  SessionInv(z)'
<1> DEFINE o == IF x \in opt THEN opt \ {x} ELSE opt \cup {x}
<1>1. /\ hostPhase = "open" /\ hostPhase' = hostPhase /\ exit' = exit /\ closes' = closes
      /\ opt' = o /\ hostPerm' = hostPerm /\ auth' = auth /\ kind' = kind /\ gone' = gone /\ hostDown' = hostDown
      /\ hostCm' = hostCm /\ ui' = ui /\ unsent' = unsent /\ clip' = clip
      /\ hostSubs' = Kept(z)!Subscribed(hostSubs, o, x) /\ switched' = (IF x = "noclip" THEN FALSE ELSE switched)
      /\ entries' = IF q THEN entries \cup {"quality"} ELSE entries \ {"quality"}
  BY DEF Kept!SetOption, Kept!OptionUpdate, Kept!life, Kept!side
<1>2. hostStale' \in BOOLEAN /\ switched' \in BOOLEAN
  <2>1. hostStale' = (hostStale /\ l)
    BY DEF Kept!SetOption
  <2> QED
    BY <1>1, <2>1, Zenon DEF SessionInv, SessionFlags
<1>3. IF x = "files" THEN Kept(z)!Tell([m |-> "clip", on |-> Kept(z)!FilesAllowed(hostPerm, o)]) ELSE hostUp' = hostUp
  BY DEF Kept!SetOption, Kept!OptionUpdate
<1>4. opt' \subseteq Kept(z)!Option /\ hostPerm \subseteq Kept(z)!Perm
  BY <1>1 DEF SessionInv, SessionTypes
<1>5. WindowHears(z)' /\ hostUp' \in Seq(ToWindow(z)) /\ (hostCm = "gone" => hostUp' = <<>>)
  <2>1. CASE x = "files"
    <3>1. [m |-> "clip", on |-> Kept(z)!FilesAllowed(hostPerm, o)] \in ToWindow(z)
      BY SessionUpMessages DEF Kept!FilesAllowed
    <3>2. Kept(z)!Tell([m |-> "clip", on |-> Kept(z)!FilesAllowed(hostPerm, o)])
      BY <1>3, <2>1
    <3> HIDE DEF o
    <3> QED
      BY <1>1, <3>1, <3>2, SessionHears
  <2>2. CASE x # "files"
    <3>1. Kept(z)!FilesAllowed(hostPerm', opt') <=> Kept(z)!FilesAllowed(hostPerm, opt)
      BY <1>1, <2>2 DEF Kept!FilesAllowed
    <3>2. hostUp' = hostUp
      BY <1>3, <2>2
    <3> HIDE DEF o
    <3> QED
      BY <1>1, <3>1, <3>2, SessionHearsNothing DEF SessionInv, SessionTypes, SessionLife
  <2> QED
    BY <2>1, <2>2
<1>6. SessionTypes(z)'
  <2>1. hostSubs' \subseteq Kept(z)!Services
    BY <1>1 DEF Kept!Subscribed, Kept!Sub, Kept!Services, SessionInv, SessionTypes
  <2> QED
    BY <1>1, <1>4, <1>5, <2>1 DEF SessionInv, SessionTypes
<1>7. SessionFlags'
  BY <1>1, <1>2 DEF SessionInv, SessionFlags
<1>8. SessionLife(z)'
  <2>1. exit = "none" /\ closes = 0
    BY <1>1 DEF SessionInv, SessionLife, Kept!Ended
  <2> QED
    BY <1>1, <1>5, <2>1 DEF SessionInv, SessionLife, Kept!ClosedOnce, Kept!LeftBehind, Kept!Ended
<1>9. SessionSubs(z)'
  <2>1. x \in {"cursor", "mute", "noclip", "files"}
    BY DEF Kept!Option
  <2>2. CASE x = "cursor"
    BY <1>1, <2>2 DEF SessionInv, SessionSubs, Kept!TunnelIsNotSession, Kept!Subscribed, Kept!Sub, Kept!CursorAllowed,
      Kept!AudioAllowed, Kept!ClipboardAllowed
  <2>3. CASE x = "mute"
    BY <1>1, <2>3 DEF SessionInv, SessionSubs, Kept!TunnelIsNotSession, Kept!Subscribed, Kept!Sub, Kept!CursorAllowed,
      Kept!AudioAllowed, Kept!ClipboardAllowed
  <2>4. CASE x = "noclip"
    BY <1>1, <2>4 DEF SessionInv, SessionSubs, Kept!TunnelIsNotSession, Kept!Subscribed, Kept!Sub, Kept!CursorAllowed,
      Kept!AudioAllowed, Kept!ClipboardAllowed
  <2>5. CASE x = "files"
    BY <1>1, <2>5 DEF SessionInv, SessionSubs, Kept!TunnelIsNotSession, Kept!Subscribed, Kept!Sub, Kept!CursorAllowed,
      Kept!AudioAllowed, Kept!ClipboardAllowed
  <2> QED
    BY <2>1, <2>2, <2>3, <2>4, <2>5
<1>10. WindowSays(z)' /\ "audio" \notin ui'.perm
  BY <1>1 DEF SessionInv, WindowSays
<1> QED
  BY <1>5, <1>6, <1>7, <1>8, <1>9, <1>10 DEF SessionInv

\* send_logon_response: who comes in is subscribed to what the flags allow.
LEMMA SessionLogonStep ==
  ASSUME NEW z, SessionInv(z), NEW k \in SUBSET {"files", "tunnel"}, kind \subseteq k, kind' = k,
         hostPerm' = hostPerm, opt' = opt, Kept(z)!LogonResponse(k), "tunnel" \in k => ~auth
  PROVE  /\ auth' \in BOOLEAN /\ hostStale' \in BOOLEAN /\ switched' \in BOOLEAN
         /\ (auth => auth') /\ ("tunnel" \notin k => auth')
         /\ hostSubs' \subseteq Kept(z)!Services /\ SessionSubs(z)'
<1> USE DEF SessionInv, SessionTypes, SessionFlags, Kept!LogonResponse
<1>1. CASE auth \/ "tunnel" \in k
  BY <1>1 DEF SessionSubs, Kept!TunnelIsNotSession
<1>2. CASE ~(auth \/ "tunnel" \in k)
  <2>1. auth' = TRUE /\ hostStale' = FALSE
    BY <1>2
  <2>2. CASE UNCHANGED <<hostSubs, switched>>
    BY <1>2, <2>1, <2>2 DEF SessionSubs, Kept!TunnelIsNotSession
  <2>3. CASE /\ hostSubs' = (IF "files" \in k THEN hostSubs ELSE Kept(z)!Joined(hostSubs))
             /\ switched' = (IF "files" \in k \/ (switched /\ "clipboard" \in hostSubs) THEN switched ELSE FALSE)
    <3>1. switched' \in BOOLEAN
      BY <2>3, Zenon
    <3>2. CASE "files" \in k
      BY <1>2, <2>1, <2>3, <3>1, <3>2 DEF SessionSubs, Kept!TunnelIsNotSession
    <3>3. CASE "files" \notin k
      <4>1. hostSubs' \subseteq Kept(z)!Services
        BY <2>3, <3>3 DEF Kept!Joined, Kept!Services
      <4>2. SessionSubs(z)'
        BY <1>2, <2>1, <2>3, <3>3 DEF SessionSubs, Kept!TunnelIsNotSession, Kept!Joined
      <4> QED
        BY <2>1, <3>1, <4>1, <4>2
    <3> QED
      BY <3>2, <3>3
  <2> QED
    BY <1>2, <2>2, <2>3
<1> QED
  BY <1>1, <1>2

\* A login request.
LEMMA SessionLoginStep ==
  ASSUME NEW z, SessionInv(z), NEW k \in {"desktop", "files", "tunnel"}, NEW w \in {"denied", "error", "ask", "right"},
         NEW r \in BOOLEAN, Kept(z)!Login(k, w, r)
  PROVE  SessionInv(z)'
<1>1. /\ hostPhase = "open" /\ ~auth /\ hostPerm' = hostPerm /\ opt' = opt /\ gone' = gone /\ hostDown' = hostDown
      /\ hostCm' = hostCm /\ ui' = ui /\ unsent' = unsent /\ clip' = clip /\ "audio" \notin ui.perm
      /\ exit = "none" /\ closes = 0
  BY DEF Kept!Login, Kept!side, SessionInv, SessionLife, Kept!Ended
<1>2. kind' \in SUBSET {"files", "tunnel"} /\ kind \subseteq kind'
  BY DEF Kept!Login, Kept!LoginKind, SessionInv, SessionTypes
<1>3. \A a \in BOOLEAN :
        Kept(z)!LoginShown(a) \in ToWindow(z) /\ Kept(z)!LoginShown(a).m = "login" /\ Kept(z)!LoginShown(a).auth = a
          /\ Kept(z)!LoginShown(a).perm = hostPerm
          /\ (Kept(z)!LoginShown(a).clip <=> Kept(z)!FilesAllowed(hostPerm, opt))
  BY SessionUpMessages DEF Kept!LoginShown, Kept!FilesAllowed, SessionInv, SessionTypes
<1>4. CASE w = "denied"
  <2>1. /\ hostPhase' = "ended" /\ exit' = "refused" /\ entries' = {} /\ closes' = closes /\ hostSubs' = hostSubs
         /\ hostUp' = hostUp
        /\ kind' = kind /\ auth' = auth /\ hostStale' = hostStale /\ switched' = switched
    BY <1>4 DEF Kept!Login, Kept!Refused, Kept!AfterLoop
  <2>2. SessionTypes(z)'
    BY <1>1, <1>2, <2>1 DEF SessionInv, SessionTypes
  <2>3. SessionFlags'
    BY <1>1, <2>1 DEF SessionInv, SessionFlags
  <2>4. SessionLife(z)'
    BY <1>1, <2>1 DEF SessionInv, SessionLife, Kept!ClosedOnce, Kept!LeftBehind, Kept!Ended
  <2>5. SessionSubs(z)'
    BY <1>1, <2>1 DEF SessionInv, SessionSubs, Kept!TunnelIsNotSession
  <2>6. WindowHears(z)' /\ WindowSays(z)'
    BY <2>1 DEF WindowHears, WindowSays
  <2> QED
    BY <1>1, <2>2, <2>3, <2>4, <2>5, <2>6 DEF SessionInv
<1>5. CASE w \in {"error", "ask"}
  <2>1. /\ hostPhase' = hostPhase /\ exit' = exit /\ closes' = closes /\ entries' = entries /\ hostSubs' = hostSubs
        /\ auth' = auth /\ hostStale' = hostStale /\ switched' = switched
        /\ IF w = "ask" THEN Kept(z)!Tell(Kept(z)!LoginShown(FALSE)) ELSE hostUp' = hostUp
    BY <1>5 DEF Kept!Login, Kept!life
  <2>2. WindowHears(z)' /\ hostUp' \in Seq(ToWindow(z)) /\ (hostCm = "gone" => hostUp' = <<>>)
    <3>1. CASE w = "ask"
      <4>1. Kept(z)!Tell(Kept(z)!LoginShown(FALSE))
        BY <2>1, <3>1
      <4> QED
        BY <1>1, <1>3, <2>1, <4>1, SessionHears
    <3>2. CASE w = "error"
      <4>1. hostUp' = hostUp
        BY <2>1, <3>2
      <4> QED
        BY <1>1, <2>1, <4>1, SessionHearsNothing DEF SessionInv, SessionTypes, SessionLife
    <3> QED
      BY <1>5, <3>1, <3>2
  <2>3. SessionTypes(z)'
    BY <1>1, <1>2, <2>1, <2>2 DEF SessionInv, SessionTypes
  <2>4. SessionFlags'
    BY <1>1, <2>1 DEF SessionInv, SessionFlags
  <2>5. SessionLife(z)'
    BY <1>1, <2>1, <2>2 DEF SessionInv, SessionLife, Kept!ClosedOnce, Kept!LeftBehind, Kept!Ended
  <2>6. SessionSubs(z)'
    BY <1>1, <2>1 DEF SessionInv, SessionSubs, Kept!TunnelIsNotSession
  <2>7. WindowSays(z)'
    BY <1>1, <2>1 DEF SessionInv, WindowSays, WindowSaid
  <2> QED
    BY <1>1, <2>2, <2>3, <2>4, <2>5, <2>6, <2>7 DEF SessionInv
<1>6. CASE w = "right"
  <2>1. /\ Kept(z)!LogonResponse(kind') /\ Kept(z)!Tell(Kept(z)!LoginShown(TRUE))
        /\ \/ /\ "tunnel" \in kind' /\ hostPhase' = "tunnel" /\ entries' = {} /\ exit' = exit
           \/ /\ "tunnel" \notin kind' /\ hostPhase' = hostPhase /\ exit' = exit /\ entries' = entries
           \/ /\ hostPhase' = "ended" /\ exit' = "panic" /\ entries' = entries
        /\ closes' = closes
    BY <1>6 DEF Kept!Login, Kept!ToTunnel, Kept!AfterLoop, Kept!life
  <2>2. /\ auth' \in BOOLEAN /\ hostStale' \in BOOLEAN /\ switched' \in BOOLEAN
        /\ ("tunnel" \notin kind' => auth')
        /\ hostSubs' \subseteq Kept(z)!Services /\ SessionSubs(z)'
    BY <1>1, <1>2, <2>1, SessionLogonStep
  <2>3. hostUp' \in Seq(ToWindow(z)) /\ (hostCm = "gone" => hostUp' = <<>>)
    BY <1>3, <2>1, SessionQueue DEF SessionInv, SessionTypes, SessionLife, Kept!Tell
  <2>4. WindowHears(z)'
    <3>1. CASE hostPhase' = "open"
      BY <1>1, <1>3, <2>1, <2>2, <3>1, SessionHears
    <3>2. CASE hostPhase' # "open"
      BY <3>2 DEF WindowHears
    <3> QED
      BY <3>1, <3>2
  <2>5. SessionTypes(z)'
    BY <1>1, <1>2, <2>1, <2>2, <2>3 DEF SessionInv, SessionTypes
  <2>6. SessionFlags'
    BY <1>1, <2>2 DEF SessionInv, SessionFlags
  <2>7. SessionLife(z)'
    BY <1>1, <2>1, <2>3 DEF SessionInv, SessionLife, Kept!ClosedOnce, Kept!LeftBehind, Kept!Ended
  <2>8. WindowSays(z)'
    BY <1>1, <2>1, <2>2 DEF SessionInv, WindowSays, WindowSaid
  <2> QED
    BY <1>1, <2>2, <2>4, <2>5, <2>6, <2>7, <2>8 DEF SessionInv
<1> QED
  BY <1>4, <1>5, <1>6

\* The connection has taken what the window sent.
LEMMA SessionSaysLess ==
  ASSUME NEW z, SessionInv(z), hostPhase = "open", hostDown # <<>>, hostDown' = Tail(hostDown), hostCm' = hostCm,
         ui' = ui, unsent' = unsent,
         auth => auth', Head(hostDown).m = "authorize" => auth',
         \A n \in Kept(z)!Perm : n \in hostPerm' <=> IF SwitchesTo(hostDown, 1, n) THEN hostDown[1].on ELSE n \in hostPerm
  PROVE  WindowSays(z)' /\ hostDown' \in Seq(FromWindow(z)) /\ hostCm \notin {"starting", "waiting"}
<1>1. /\ hostDown' \in Seq(FromWindow(z)) /\ Head(hostDown) \in FromWindow(z) /\ Head(hostDown) = hostDown[1]
      /\ Len(hostDown) \in Nat /\ 1 \in 1 .. Len(hostDown) /\ Len(hostDown') = Len(hostDown) - 1
      /\ \A i \in 1 .. Len(hostDown) - 1 : hostDown'[i] = hostDown[i + 1] /\ i + 1 \in 1 .. Len(hostDown)
  BY SessionQueueHead DEF SessionInv, SessionTypes
<1>2. hostCm \notin {"starting", "waiting"}
  BY DEF SessionInv, SessionLife
<1>3. ASSUME hostCm = "shown", ui.auth
      PROVE  auth' \/ \E i \in 1 .. Len(hostDown') : hostDown'[i].m = "authorize"
  <2>1. auth \/ \E i \in 1 .. Len(hostDown) : hostDown[i].m = "authorize"
    BY <1>3 DEF SessionInv, WindowSays, WindowSaid
  <2>2. ASSUME NEW i \in 1 .. Len(hostDown), hostDown[i].m = "authorize", i # 1
        PROVE  \E j \in 1 .. Len(hostDown') : hostDown'[j].m = "authorize"
    <3>1. i - 1 \in 1 .. Len(hostDown') /\ hostDown'[i - 1] = hostDown[i]
      BY <1>1, <2>2
    <3> QED
      BY <2>2, <3>1
  <2> QED
    BY <1>1, <2>1, <2>2
<1>4. ASSUME hostCm = "shown", NEW n \in Kept(z)!Perm
      PROVE  /\ \A i \in 1 .. Len(hostDown') :
                  SwitchesTo(hostDown', i, n) /\ (\A j \in 1 .. Len(hostDown') : j > i => ~SwitchesTo(hostDown', j, n)) =>
                    (hostDown'[i].on <=> n \in ui.perm)
             /\ (\A i \in 1 .. Len(hostDown') : ~SwitchesTo(hostDown', i, n)) =>
                  (n \in ui.perm <=> n \in hostPerm') \/ (n = "file" /\ z.no) \/ (n = "audio" /\ unsent)
  <2>1. \A i \in 1 .. Len(hostDown') : i + 1 \in 1 .. Len(hostDown) /\ hostDown'[i] = hostDown[i + 1]
         /\ (SwitchesTo(hostDown', i, n) <=> SwitchesTo(hostDown, i + 1, n))
    BY <1>1 DEF SwitchesTo
  <2>2. \A i \in 1 .. Len(hostDown) : i # 1 => i - 1 \in 1 .. Len(hostDown') /\ i = (i - 1) + 1
    BY <1>1
  <2>3. \A i \in 1 .. Len(hostDown) :
          SwitchesTo(hostDown, i, n) /\ (\A j \in 1 .. Len(hostDown) : j > i => ~SwitchesTo(hostDown, j, n)) =>
             (hostDown[i].on <=> n \in ui.perm)
    BY <1>4 DEF SessionInv, WindowSays, WindowSaid
  <2>4. ASSUME NEW i \in 1 .. Len(hostDown'), SwitchesTo(hostDown', i, n),
               \A j \in 1 .. Len(hostDown') : j > i => ~SwitchesTo(hostDown', j, n)
        PROVE  hostDown'[i].on <=> n \in ui.perm
    <3>1. ASSUME NEW j \in 1 .. Len(hostDown), j > i + 1 PROVE ~SwitchesTo(hostDown, j, n)
      <4>1. j - 1 \in 1 .. Len(hostDown') /\ j - 1 > i /\ (j - 1) + 1 = j
        BY <1>1, <3>1
      <4> QED
        BY <2>1, <2>4, <4>1
    <3> QED
      BY <2>1, <2>3, <2>4, <3>1
  <2>5. ASSUME \A i \in 1 .. Len(hostDown') : ~SwitchesTo(hostDown', i, n)
        PROVE  (n \in ui.perm <=> n \in hostPerm') \/ (n = "file" /\ z.no) \/ (n = "audio" /\ unsent)
    <3>1. \A j \in 1 .. Len(hostDown) : j # 1 => ~SwitchesTo(hostDown, j, n)
      BY <2>1, <2>2, <2>5
    <3>2. CASE SwitchesTo(hostDown, 1, n)
      <4>1. \A j \in 1 .. Len(hostDown) : j > 1 => ~SwitchesTo(hostDown, j, n)
        BY <3>1
      <4> QED
        BY <1>1, <2>3, <3>2, <4>1
    <3>3. CASE ~SwitchesTo(hostDown, 1, n)
      <4>1. \A j \in 1 .. Len(hostDown) : ~SwitchesTo(hostDown, j, n)
        BY <3>1, <3>3
      <4>2. (n \in ui.perm <=> n \in hostPerm) \/ (n = "file" /\ z.no) \/ (n = "audio" /\ unsent)
        BY <1>4, <4>1 DEF SessionInv, WindowSays, WindowSaid
      <4> QED
        BY <3>3, <4>2
    <3> QED
      BY <3>2, <3>3
  <2> QED
    BY <2>4, <2>5
<1>5. WindowSays(z)'
  BY <1>3, <1>4 DEF WindowSays, WindowSaid
<1> QED
  BY <1>1, <1>2, <1>5

\* The user has let the peer in.
LEMMA SessionAuthorizeStep ==
  ASSUME NEW z, SessionInv(z), Kept(z)!Authorize \/ Kept(z)!AuthorizePanics
  PROVE  SessionInv(z)'
<1>1. /\ hostPhase = "open" /\ hostDown # <<>> /\ Head(hostDown).m = "authorize" /\ hostDown' = Tail(hostDown)
       /\ Kept(z)!LogonResponse(kind)
      /\ hostPerm' = hostPerm /\ opt' = opt /\ kind' = kind /\ gone' = gone /\ hostUp' = hostUp
      /\ hostCm' = hostCm /\ ui' = ui /\ unsent' = unsent /\ clip' = clip /\ "audio" \notin ui.perm
      /\ exit = "none" /\ closes = 0 /\ closes' = 0
      /\ \/ /\ "tunnel" \in kind /\ hostPhase' = "tunnel" /\ entries' = {} /\ exit' = exit
         \/ /\ "tunnel" \notin kind /\ hostPhase' = hostPhase /\ exit' = exit /\ entries' = entries
         \/ /\ hostPhase' = "ended" /\ exit' = "panic" /\ entries' = entries
  BY DEF Kept!Authorize, Kept!AuthorizePanics, Kept!Command, Kept!ToTunnel, Kept!AfterLoop, Kept!life, Kept!side,
    SessionInv, SessionLife, Kept!Ended
<1>2. /\ auth' \in BOOLEAN /\ hostStale' \in BOOLEAN /\ switched' \in BOOLEAN
      /\ (auth => auth') /\ ("tunnel" \notin kind => auth')
      /\ hostSubs' \subseteq Kept(z)!Services /\ SessionSubs(z)'
  <2>1. "tunnel" \in kind => ~auth
    BY DEF SessionInv, SessionSubs, Kept!TunnelIsNotSession
  <2>2. kind \in SUBSET {"files", "tunnel"}
    BY DEF SessionInv, SessionTypes
  <2> QED
    BY <1>1, <2>1, <2>2, SessionLogonStep
<1>3. hostDown' \in Seq(FromWindow(z)) /\ Head(hostDown) = hostDown[1] /\ hostCm \notin {"starting", "waiting"}
  BY <1>1, SessionQueueHead DEF SessionInv, SessionTypes, SessionLife
<1>4. WindowHears(z)' /\ WindowSays(z)'
  <2>1. CASE hostPhase' = "open"
    <3>1. auth' /\ hostPhase = "open"
      BY <1>1, <1>2, <2>1
    <3>2. Kept(z)!FilesAllowed(hostPerm', opt') <=> Kept(z)!FilesAllowed(hostPerm, opt)
      BY <1>1
    <3>3. WindowHears(z)'
      BY <1>1, <3>1, <3>2, SessionHearsNothing
    <3>4. \A n \in Kept(z)!Perm : n \in hostPerm' <=> IF SwitchesTo(hostDown, 1, n) THEN hostDown[1].on ELSE n \in hostPerm
      BY <1>1, <1>3 DEF SwitchesTo
    <3>5. WindowSays(z)'
      BY <1>1, <3>1, <3>4, SessionSaysLess
    <3> QED
      BY <3>3, <3>5
  <2>2. CASE hostPhase' # "open"
    BY <2>2 DEF WindowHears, WindowSays
  <2> QED
    BY <2>1, <2>2
<1>5. SessionTypes(z)'
  BY <1>1, <1>2, <1>3 DEF SessionInv, SessionTypes
<1>6. SessionFlags'
  BY <1>1, <1>2 DEF SessionInv, SessionFlags
<1>7. SessionLife(z)'
  BY <1>1, <1>3 DEF SessionInv, SessionLife, Kept!ClosedOnce, Kept!LeftBehind, Kept!Ended
<1> QED
  BY <1>1, <1>2, <1>4, <1>5, <1>6, <1>7 DEF SessionInv

\* The user has switched a permission.
LEMMA SessionSwitchStep == ASSUME NEW z, SessionInv(z), Kept(z)!SwitchPermission PROVE SessionInv(z)'
<1> DEFINE n == hostDown[1].name
           p == IF hostDown[1].on THEN hostPerm \cup {n} ELSE hostPerm \ {n}
<1>1. hostDown # <<>> /\ Head(hostDown) = hostDown[1] /\ Head(hostDown) \in FromWindow(z) /\ hostCm \notin {"starting", "waiting"}
  BY SessionQueueHead DEF Kept!SwitchPermission, Kept!Command, SessionInv, SessionTypes, SessionLife
<1>2. /\ hostPhase = "open" /\ Head(hostDown).m = "switch" /\ hostDown' = Tail(hostDown)
      /\ hostPhase' = hostPhase /\ exit' = exit /\ closes' = closes /\ opt' = opt /\ auth' = auth /\ kind' = kind
      /\ entries' = entries /\ hostStale' = hostStale /\ gone' = gone
      /\ hostCm' = hostCm /\ ui' = ui /\ unsent' = unsent /\ clip' = clip /\ "audio" \notin ui.perm
      /\ exit = "none" /\ closes = 0
  BY DEF Kept!SwitchPermission, Kept!Command, Kept!life, Kept!video, Kept!side, SessionInv, SessionLife, Kept!Ended
<1>3. /\ hostPerm' = p
      /\ hostSubs' = (CASE n = "keyboard" -> Kept(z)!Sub(hostSubs, "cursor", Kept(z)!CursorAllowed(p, opt))
                    [] n = "clipboard" -> Kept(z)!Sub(hostSubs, "clipboard", Kept(z)!ClipboardAllowed(p, opt))
                    [] n = "audio" -> Kept(z)!Sub(hostSubs, "audio", Kept(z)!AudioAllowed(p, opt))
                    [] OTHER -> hostSubs)
      /\ switched' = (CASE n = "keyboard" -> TRUE [] n = "clipboard" -> FALSE [] OTHER -> switched)
      /\ IF n = "file" THEN Kept(z)!Tell([m |-> "clip", on |-> Kept(z)!FilesAllowed(p, opt)]) ELSE hostUp' = hostUp
  BY <1>1 DEF Kept!SwitchPermission
<1>4. n \in Kept(z)!Perm /\ hostDown[1].on \in BOOLEAN /\ p \subseteq Kept(z)!Perm
  BY <1>1, <1>2, SessionDownMessages DEF SessionInv, SessionTypes
<1>5. \A x \in Kept(z)!Perm : x \in p <=> IF x = n THEN hostDown[1].on ELSE x \in hostPerm
  BY <1>4
<1>6. WindowSays(z)' /\ hostDown' \in Seq(FromWindow(z))
  <2>1. \A x \in Kept(z)!Perm : x \in hostPerm' <=> IF SwitchesTo(hostDown, 1, x) THEN hostDown[1].on ELSE x \in hostPerm
    BY <1>1, <1>2, <1>3, <1>5 DEF SwitchesTo
  <2> HIDE DEF n, p
  <2> QED
    BY <1>1, <1>2, <2>1, SessionSaysLess
<1>7. WindowHears(z)' /\ hostUp' \in Seq(ToWindow(z)) /\ (hostCm = "gone" => hostUp' = <<>>)
  <2>1. CASE n = "file"
    <3>1. [m |-> "clip", on |-> Kept(z)!FilesAllowed(p, opt)] \in ToWindow(z)
      BY SessionUpMessages DEF Kept!FilesAllowed
    <3>2. Kept(z)!Tell([m |-> "clip", on |-> Kept(z)!FilesAllowed(p, opt)])
      BY <1>3, <2>1
    <3> HIDE DEF p
    <3> QED
      BY <1>1, <1>2, <1>3, <3>1, <3>2, SessionHears
  <2>2. CASE n # "file"
    <3>1. Kept(z)!FilesAllowed(hostPerm', opt') <=> Kept(z)!FilesAllowed(hostPerm, opt)
      BY <1>2, <1>3, <1>5, <2>2 DEF Kept!FilesAllowed, Kept!Perm
    <3>2. hostUp' = hostUp
      BY <1>3, <2>2
    <3> HIDE DEF p
    <3> QED
      BY <1>1, <1>2, <3>1, <3>2, SessionHearsNothing DEF SessionInv, SessionTypes, SessionLife
  <2> QED
    BY <2>1, <2>2
<1>8. SessionSubs(z)' /\ hostSubs' \subseteq Kept(z)!Services
  <2> HIDE DEF p
  <2>1. n \in {"keyboard", "clipboard", "audio", "file"}
    BY <1>4 DEF Kept!Perm
  <2>2. {"keyboard", "clipboard", "audio", "file"} \subseteq Kept(z)!Perm
    BY DEF Kept!Perm
  <2>3. CASE n = "keyboard"
    BY <1>2, <1>3, <1>5, <2>2, <2>3 DEF SessionInv, SessionTypes, Kept!Services, SessionSubs, Kept!TunnelIsNotSession,
      Kept!Sub, Kept!CursorAllowed, Kept!AudioAllowed, Kept!ClipboardAllowed
  <2>4. CASE n = "clipboard"
    BY <1>2, <1>3, <1>5, <2>2, <2>4 DEF SessionInv, SessionTypes, Kept!Services, SessionSubs, Kept!TunnelIsNotSession,
      Kept!Sub, Kept!CursorAllowed, Kept!AudioAllowed, Kept!ClipboardAllowed
  <2>5. CASE n = "audio"
    BY <1>2, <1>3, <1>5, <2>2, <2>5 DEF SessionInv, SessionTypes, Kept!Services, SessionSubs, Kept!TunnelIsNotSession,
      Kept!Sub, Kept!CursorAllowed, Kept!AudioAllowed, Kept!ClipboardAllowed
  <2>6. CASE n = "file"
    BY <1>2, <1>3, <1>5, <2>2, <2>6 DEF SessionInv, SessionTypes, Kept!Services, SessionSubs, Kept!TunnelIsNotSession,
      Kept!Sub, Kept!CursorAllowed, Kept!AudioAllowed, Kept!ClipboardAllowed
  <2> QED
    BY <2>1, <2>3, <2>4, <2>5, <2>6
<1>9. SessionTypes(z)'
  BY <1>2, <1>3, <1>4, <1>6, <1>7, <1>8 DEF SessionInv, SessionTypes
<1>10. SessionFlags'
  <2>1. switched' \in BOOLEAN
    BY <1>3, Zenon DEF SessionInv, SessionFlags
  <2> QED
    BY <1>2, <2>1 DEF SessionInv, SessionFlags
<1>11. SessionLife(z)'
  BY <1>1, <1>2, <1>7 DEF SessionInv, SessionLife, Kept!ClosedOnce, Kept!LeftBehind, Kept!Ended
<1> QED
  BY <1>2, <1>6, <1>7, <1>8, <1>9, <1>10, <1>11 DEF SessionInv

\* The window takes what the connection has told it.
LEMMA SessionHearsLess ==
  ASSUME NEW z, SessionInv(z), hostUp # <<>>, hostUp' = Tail(hostUp), Head(hostUp).m \in {"login", "clip"},
         hostCm \in {"waiting", "shown"},
         hostPhase' = hostPhase, hostPerm' = hostPerm, opt' = opt, auth' = auth, closes' = closes, hostCm' \in {hostCm, "shown"},
         hostCm' = "shown" => (clip' <=> IF Head(hostUp).m = "login" THEN Head(hostUp).clip ELSE Head(hostUp).on)
  PROVE  /\ WindowHears(z)' /\ hostUp' \in Seq(ToWindow(z))
         /\ closes = 1 => hostUp' # <<>> /\ hostUp'[Len(hostUp')].m = "close"
         /\ hostPhase # "new" /\ exit # "closedDoor"
<1>1. /\ hostUp' \in Seq(ToWindow(z)) /\ Head(hostUp) = hostUp[1]
      /\ Len(hostUp) \in Nat /\ 1 \in 1 .. Len(hostUp) /\ Len(hostUp') = Len(hostUp) - 1
      /\ \A i \in 1 .. Len(hostUp) - 1 : hostUp'[i] = hostUp[i + 1] /\ i + 1 \in 1 .. Len(hostUp)
  BY SessionQueueHead DEF SessionInv, SessionTypes
<1>2. hostPhase # "new" /\ exit # "closedDoor"
  BY DEF SessionInv, SessionLife
<1>3. closes = 1 => hostUp' # <<>> /\ hostUp'[Len(hostUp')].m = "close"
  <2>1. closes = 1 => hostUp[Len(hostUp)].m = "close"
    BY DEF SessionInv, SessionLife
  <2>2. closes = 1 => Len(hostUp) # 1
    BY <1>1, <2>1
  <2>3. closes = 1 => Len(hostUp') \in 1 .. Len(hostUp) - 1 /\ Len(hostUp') + 1 = Len(hostUp) /\ hostUp' # <<>>
    <3>1. closes = 1 => Len(hostUp') \in 1 .. Len(hostUp) - 1 /\ Len(hostUp') + 1 = Len(hostUp)
      BY <1>1, <2>2
    <3>2. closes = 1 => Len(hostUp') # 0
      BY <1>1, <3>1
    <3>3. hostUp' # <<>> \/ Len(hostUp') = 0
      OBVIOUS
    <3> QED
      BY <3>1, <3>2, <3>3
  <2>4. closes = 1 => hostUp'[Len(hostUp')] = hostUp[Len(hostUp') + 1]
    BY <1>1, <2>3
  <2> QED
    BY <2>1, <2>3, <2>4
<1>4. ASSUME hostPhase = "open", NEW i \in 1 .. Len(hostUp'), hostUp'[i].m = "login"
      PROVE  (hostUp'[i].auth => auth') /\ (hostCm' \in {"starting", "waiting"} => hostUp'[i].perm = hostPerm')
  BY <1>1, <1>4 DEF SessionInv, WindowHears
<1>5. \A i \in 1 .. Len(hostUp') : i + 1 \in 1 .. Len(hostUp) /\ (TellsFiles(i)' <=> TellsFiles(i + 1))
       /\ (ToldFiles(i)' <=> ToldFiles(i + 1))
  BY <1>1 DEF TellsFiles, ToldFiles
<1>6. \A j \in 1 .. Len(hostUp) : j # 1 => j - 1 \in 1 .. Len(hostUp') /\ (j - 1) + 1 = j
  BY <1>1
<1>7. hostPhase = "open" => \A i \in 1 .. Len(hostUp) : TellsFiles(i) /\ (\A j \in 1 .. Len(hostUp) : j > i => ~TellsFiles(j)) =>
        (ToldFiles(i) <=> Kept(z)!FilesAllowed(hostPerm, opt))
  BY DEF SessionInv, WindowHears
<1>8. ASSUME hostPhase = "open", NEW i \in 1 .. Len(hostUp'), TellsFiles(i)',
             \A j \in 1 .. Len(hostUp') : j > i => ~TellsFiles(j)'
      PROVE  ToldFiles(i)' <=> Kept(z)!FilesAllowed(hostPerm', opt')
  <2>1. ASSUME NEW j \in 1 .. Len(hostUp), j > i + 1 PROVE ~TellsFiles(j)
    <3>1. j - 1 \in 1 .. Len(hostUp') /\ j - 1 > i /\ (j - 1) + 1 = j
      BY <1>1, <1>6, <2>1
    <3>2. ~TellsFiles(j - 1 + 1)
      BY <1>1, <1>5, <1>8, <3>1 DEF TellsFiles
    <3> QED
      BY <3>1, <3>2
  <2> QED
    BY <1>5, <1>7, <1>8, <2>1
<1>9. ASSUME hostPhase = "open", hostCm' = "shown", \A i \in 1 .. Len(hostUp') : ~TellsFiles(i)'
      PROVE  clip' <=> Kept(z)!FilesAllowed(hostPerm', opt')
  <2>1. ASSUME NEW j \in 1 .. Len(hostUp), j > 1 PROVE ~TellsFiles(j)
    <3>1. j - 1 \in 1 .. Len(hostUp') /\ hostUp'[j - 1] = hostUp[j]
      BY <1>1, <2>1
    <3> QED
      BY <1>9, <3>1 DEF TellsFiles
  <2>2. TellsFiles(1) /\ (ToldFiles(1) <=> clip')
    BY <1>1, <1>9 DEF TellsFiles, ToldFiles
  <2> QED
    BY <1>1, <1>7, <1>9, <2>1, <2>2
<1>10. WindowHears(z)'
  BY <1>4, <1>8, <1>9 DEF WindowHears
<1> QED
  BY <1>1, <1>2, <1>3, <1>10

\* The window says more.
LEMMA SessionSaysMore ==
  ASSUME NEW z, NEW d \in Seq(FromWindow(z)), NEW m \in FromWindow(z), NEW u, NEW v, NEW x, NEW y,
         WindowSaid(z, hostPerm, auth, u, d, x),
         v.auth => u.auth \/ auth \/ m.m = "authorize",
         \A n \in Kept(z)!Perm : n \in v.perm <=> IF m.m = "switch" /\ m.name = n THEN m.on ELSE n \in u.perm,
         (x => y) \/ (m.m = "switch" /\ m.name = "audio")
  PROVE  Append(d, m) \in Seq(FromWindow(z)) /\ WindowSaid(z, hostPerm, auth, v, Append(d, m), y)
<1> DEFINE e == Append(d, m)
<1>1. /\ e \in Seq(FromWindow(z)) /\ Len(e) = Len(d) + 1 /\ Len(d) \in Nat
      /\ \A i \in 1 .. Len(d) + 1 : e[i] = IF i = Len(d) + 1 THEN m ELSE d[i]
  BY SessionQueue
<1> HIDE DEF e
<1>2. ASSUME v.auth PROVE auth \/ \E i \in 1 .. Len(e) : e[i].m = "authorize"
  <2>1. CASE m.m = "authorize"
    <3>1. Len(d) + 1 \in 1 .. Len(e) /\ e[Len(d) + 1] = m
      BY <1>1
    <3> QED
      BY <2>1, <3>1
  <2>2. CASE u.auth \/ auth
    <3>1. auth \/ \E i \in 1 .. Len(d) : d[i].m = "authorize"
      BY <2>2 DEF WindowSaid
    <3>2. \A i \in 1 .. Len(d) : i \in 1 .. Len(e) /\ e[i] = d[i]
      BY <1>1
    <3> QED
      BY <3>1, <3>2
  <2> QED
    BY <1>2, <2>1, <2>2
<1>3. ASSUME NEW n \in Kept(z)!Perm
      PROVE  /\ \A i \in 1 .. Len(e) :
                  SwitchesTo(e, i, n) /\ (\A j \in 1 .. Len(e) : j > i => ~SwitchesTo(e, j, n)) => (e[i].on <=> n \in v.perm)
             /\ (\A i \in 1 .. Len(e) : ~SwitchesTo(e, i, n)) =>
                  (n \in v.perm <=> n \in hostPerm) \/ (n = "file" /\ z.no) \/ (n = "audio" /\ y)
  <2>1. \A i \in 1 .. Len(d) : i \in 1 .. Len(e) /\ i # Len(d) + 1 /\ e[i] = d[i] /\ (SwitchesTo(e, i, n) <=> SwitchesTo(d, i, n))
    BY <1>1 DEF SwitchesTo
  <2>2. Len(d) + 1 \in 1 .. Len(e) /\ e[Len(d) + 1] = m /\ (SwitchesTo(e, Len(d) + 1, n) <=> m.m = "switch" /\ m.name = n)
    BY <1>1 DEF SwitchesTo
  <2>3. CASE m.m = "switch" /\ m.name = n
    <3>1. m.on <=> n \in v.perm
      BY <2>3
    <3>2. ASSUME NEW i \in 1 .. Len(e), \A j \in 1 .. Len(e) : j > i => ~SwitchesTo(e, j, n)
          PROVE  i = Len(d) + 1
      BY <1>1, <2>2, <2>3, <3>2
    <3> QED
      BY <2>2, <2>3, <3>1, <3>2
  <2>4. CASE ~(m.m = "switch" /\ m.name = n)
    <3>1. n \in v.perm <=> n \in u.perm
      BY <2>4
    <3>2. ASSUME NEW i \in 1 .. Len(e), SwitchesTo(e, i, n), \A j \in 1 .. Len(e) : j > i => ~SwitchesTo(e, j, n)
          PROVE  e[i].on <=> n \in v.perm
      <4>1. i \in 1 .. Len(d)
        BY <1>1, <2>2, <2>4, <3>2
      <4>2. \A j \in 1 .. Len(d) : j > i => ~SwitchesTo(d, j, n)
        BY <2>1, <3>2
      <4> QED
        BY <2>1, <3>1, <3>2, <4>1, <4>2 DEF WindowSaid
    <3>3. ASSUME \A i \in 1 .. Len(e) : ~SwitchesTo(e, i, n)
          PROVE  (n \in v.perm <=> n \in hostPerm) \/ (n = "file" /\ z.no) \/ (n = "audio" /\ y)
      <4>1. \A i \in 1 .. Len(d) : ~SwitchesTo(d, i, n)
        BY <2>1, <3>3
      <4>2. (n \in u.perm <=> n \in hostPerm) \/ (n = "file" /\ z.no) \/ (n = "audio" /\ x)
        BY <4>1 DEF WindowSaid
      <4>3. n = "audio" => (x => y)
        BY <2>4
      <4> QED
        BY <3>1, <4>2, <4>3
    <3> QED
      BY <3>2, <3>3
  <2> QED
    BY <2>3, <2>4
<1>4. WindowSaid(z, hostPerm, auth, v, e, y)
  BY <1>2, <1>3 DEF WindowSaid
<1> QED
  BY <1>1, <1>4 DEF e

LEMMA SessionAudioIsOff == ASSUME NEW z PROVE Kept(z)!AudioOff \in FromWindow(z) /\ Kept(z)!AudioOff.m = "switch"
   /\ Kept(z)!AudioOff.name = "audio" /\ Kept(z)!AudioOff.on = FALSE
BY DEF Kept!AudioOff, FromWindow, Kept!Perm

\* Two messages are sent one after the other.
LEMMA SessionSendTwo ==
  ASSUME NEW z, NEW d \in Seq(FromWindow(z)), NEW m \in FromWindow(z)
  PROVE  /\ d \o Append(<<m>>, Kept(z)!AudioOff) = Append(Append(d, m), Kept(z)!AudioOff)
         /\ d \o <<Kept(z)!AudioOff>> = Append(d, Kept(z)!AudioOff)
<1>1. \A a, b \in FromWindow(z) : d \o Append(<<a>>, b) = Append(Append(d, a), b) /\ d \o <<b>> = Append(d, b)
  OBVIOUS
<1> QED
  BY <1>1, SessionAudioIsOff

\* The task of the manager.
LEMMA SessionManagerStep ==
  ASSUME NEW z, SessionInv(z), NEW ok \in BOOLEAN, Kept(z)!Connects(ok) \/ Kept(z)!ClipEnabled \/ Kept(z)!CmCloses
         \/ Kept(z)!CmDropped
  PROVE  SessionInv(z)'
<1>1. /\ hostPhase' = hostPhase /\ exit' = exit /\ closes' = closes /\ hostPerm' = hostPerm /\ opt' = opt /\ auth' = auth
       /\ kind' = kind
      /\ hostSubs' = hostSubs /\ entries' = entries /\ hostStale' = hostStale /\ gone' = gone /\ switched' = switched
         /\ hostDown' = hostDown
      /\ ui' = ui /\ unsent' = unsent /\ "audio" \notin ui.perm
  BY DEF Kept!Connects, Kept!ClipEnabled, Kept!CmCloses, Kept!CmDropped, Kept!life, Kept!flags, Kept!video, SessionInv
<1>2. SessionSubs(z)'
  BY <1>1 DEF SessionInv, SessionSubs, Kept!TunnelIsNotSession
<1>3. CASE Kept(z)!Connects(ok) \/ Kept(z)!CmCloses \/ Kept(z)!CmDropped
  <2>1. \/ hostCm = "starting" /\ hostCm' = "waiting" /\ hostUp' = hostUp /\ clip' = clip
        \/ hostCm = "starting" /\ hostCm' = "gone" /\ hostUp' = <<>> /\ clip' = clip
        \/ hostCm' = "gone" /\ hostUp' = <<>> /\ clip' = FALSE
        \/ hostCm \in {"waiting", "shown"} /\ hostUp = <<>> /\ Kept(z)!Ended /\ hostCm' = "gone" /\ hostUp' = <<>> /\ clip' = clip
    <3>1. CASE Kept(z)!Connects(ok)
      BY <3>1 DEF Kept!Connects
    <3>2. CASE Kept(z)!CmCloses
      BY <3>2 DEF Kept!CmCloses
    <3>3. CASE Kept(z)!CmDropped
      BY <3>3 DEF Kept!CmDropped, Kept!Ended
    <3> QED
      BY <1>3, <3>1, <3>2, <3>3
  <2>2. SessionTypes(z)'
    <3>1. <<>> \in Seq(ToWindow(z)) /\ hostUp \in Seq(ToWindow(z))
      BY DEF SessionInv, SessionTypes
    <3>2. (hostUp' = hostUp \/ hostUp' = <<>>) /\ hostCm' \in {"waiting", "gone"}
      BY <2>1
    <3> QED
      BY <1>1, <3>1, <3>2 DEF SessionInv, SessionTypes
  <2>3. SessionFlags'
    BY <1>1, <2>1 DEF SessionInv, SessionFlags
  <2>4. hostCm' = "gone" /\ clip' => Kept(z)!Ended /\ closes # 1 /\ exit # "closedDoor" /\ clip
    BY <2>1 DEF SessionInv, SessionLife
  <2>5. Kept(z)!Ended /\ closes # 1 /\ exit # "closedDoor" => exit \in {"refused", "panic"}
    BY DEF SessionInv, SessionLife, Kept!ClosedOnce
  <2>6. SessionLife(z)'
    BY <1>1, <2>1, <2>4, <2>5 DEF SessionInv, SessionLife, Kept!ClosedOnce, Kept!LeftBehind, Kept!Ended
  <2>7. WindowHears(z)' /\ WindowSays(z)'
    BY <1>1, <2>1 DEF SessionInv, WindowHears, WindowSays, TellsFiles, ToldFiles
  <2> QED
    BY <1>1, <1>2, <2>2, <2>3, <2>6, <2>7 DEF SessionInv
<1>4. CASE Kept(z)!ClipEnabled
  <2>1. /\ hostCm \in {"waiting", "shown"} /\ hostUp # <<>> /\ Head(hostUp).m = "clip" /\ hostUp' = Tail(hostUp)
         /\ hostCm' = hostCm
        /\ clip' = (IF hostCm = "shown" THEN Head(hostUp).on ELSE clip)
    BY <1>4 DEF Kept!ClipEnabled
  <2>2. Head(hostUp).on \in BOOLEAN
    BY <2>1, SessionQueueHead, SessionUpMessages DEF SessionInv, SessionTypes
  <2>3. clip' \in BOOLEAN
    BY <2>1, <2>2, Zenon DEF SessionInv, SessionFlags
  <2>4. /\ WindowHears(z)' /\ hostUp' \in Seq(ToWindow(z))
        /\ closes = 1 => hostUp' # <<>> /\ hostUp'[Len(hostUp')].m = "close"
        /\ hostPhase # "new" /\ exit # "closedDoor"
    BY <1>1, <2>1, SessionHearsLess
  <2>5. SessionTypes(z)'
    BY <1>1, <2>1, <2>4 DEF SessionInv, SessionTypes
  <2>6. SessionFlags'
    BY <1>1, <2>3 DEF SessionInv, SessionFlags
  <2>7. SessionLife(z)'
    BY <1>1, <2>1, <2>4 DEF SessionInv, SessionLife, Kept!ClosedOnce, Kept!LeftBehind, Kept!Ended
  <2>8. WindowSays(z)'
    BY <1>1, <2>1 DEF SessionInv, WindowSays
  <2> QED
    BY <1>1, <1>2, <2>4, <2>5, <2>6, <2>7, <2>8 DEF SessionInv
<1> QED
  BY <1>3, <1>4

\* The entry is made, or shown anew.
LEMMA SessionShowsStep == ASSUME NEW z, SessionInv(z), NEW b \in BOOLEAN, Kept(z)!Shows(b) PROVE SessionInv(z)'
<1> DEFINE h == Head(hostUp)
           q == (IF hostCm = "shown" THEN ui.perm ELSE h.perm \ IF z.no THEN {"file"} ELSE {}) \ {"audio"}
<1>1. /\ hostPhase' = hostPhase /\ exit' = exit /\ closes' = closes /\ hostPerm' = hostPerm /\ opt' = opt /\ auth' = auth
       /\ kind' = kind
      /\ hostSubs' = hostSubs /\ entries' = entries /\ hostStale' = hostStale /\ gone' = gone /\ switched' = switched
      /\ hostCm \in {"waiting", "shown"} /\ hostUp # <<>> /\ h.m = "login" /\ hostUp' = Tail(hostUp) /\ hostCm' = "shown"
      /\ ui' = [auth |-> h.auth, perm |-> q] /\ clip' = h.clip
      /\ (b \/ hostCm = "waiting") /\ unsent' = ~b
      /\ hostDown' = IF b THEN Kept(z)!Sends(<<Kept(z)!AudioOff>>) ELSE hostDown
  BY DEF Kept!Shows, Kept!life, Kept!flags, Kept!video
<1>2. h \in ToWindow(z) /\ h = hostUp[1] /\ 1 \in 1 .. Len(hostUp) /\ h.auth \in BOOLEAN
       /\ h.perm \in SUBSET Kept(z)!Perm /\ h.clip \in BOOLEAN
  BY <1>1, SessionQueueHead, SessionUpMessages DEF SessionInv, SessionTypes
<1>3. /\ WindowHears(z)' /\ hostUp' \in Seq(ToWindow(z))
      /\ closes = 1 => hostUp' # <<>> /\ hostUp'[Len(hostUp')].m = "close"
      /\ hostPhase # "new" /\ exit # "closedDoor"
  <2> HIDE DEF q
  <2> QED
    BY <1>1, SessionHearsLess
<1>4. q \subseteq Kept(z)!Perm /\ "audio" \notin q
  BY <1>2 DEF SessionInv, SessionTypes
<1>5. ui' \in [auth : BOOLEAN, perm : SUBSET Kept(z)!Perm] /\ ui'.perm = q /\ ui'.auth = h.auth
  <2> HIDE DEF q, h
  <2> QED
    BY <1>1, <1>2, <1>4
<1>6. hostDown' = (IF b /\ hostPhase # "ended" THEN Append(hostDown, Kept(z)!AudioOff) ELSE hostDown)
       /\ hostDown \in Seq(FromWindow(z))
  BY <1>1, SessionSendTwo, SessionAudioIsOff DEF Kept!Sends, SessionInv, SessionTypes
<1>7. SessionTypes(z)'
  <2>1. hostDown' \in Seq(FromWindow(z))
    BY <1>6, SessionQueue, SessionAudioIsOff
  <2> HIDE DEF q, h
  <2> QED
    BY <1>1, <1>3, <1>5, <2>1 DEF SessionInv, SessionTypes
<1>8. SessionFlags'
  <2>1. unsent' \in BOOLEAN
    BY <1>1
  <2> QED
    BY <1>1, <1>2, <2>1 DEF SessionInv, SessionFlags
<1>9. SessionLife(z)'
  BY <1>1, <1>3 DEF SessionInv, SessionLife, Kept!ClosedOnce, Kept!LeftBehind, Kept!Ended
<1>10. SessionSubs(z)'
  BY <1>1 DEF SessionInv, SessionSubs, Kept!TunnelIsNotSession
<1>11. WindowSays(z)'
  <2> SUFFICES ASSUME hostPhase = "open" PROVE WindowSaid(z, hostPerm, auth, ui', hostDown', unsent')
    BY <1>1 DEF WindowSays
  <2>1. h.auth => auth
    BY <1>1, <1>2 DEF SessionInv, WindowHears
  <2> DEFINE v == [auth |-> h.auth, perm |-> q]
  <2>2. v.auth = h.auth /\ v.perm = q /\ ui' = v
    BY <1>1
  <2>3. CASE hostCm = "shown"
    <3>1. b /\ WindowSaid(z, hostPerm, auth, ui, hostDown, unsent) /\ q = ui.perm
           /\ hostDown' = Append(hostDown, Kept(z)!AudioOff)
      BY <1>1, <1>6, <2>3 DEF SessionInv, WindowSays
    <3>2. \A n \in Kept(z)!Perm : n \in v.perm <=> IF Kept(z)!AudioOff.m = "switch" /\ Kept(z)!AudioOff.name = n
           THEN Kept(z)!AudioOff.on ELSE n \in ui.perm
      BY <1>4, <2>2, <3>1, SessionAudioIsOff
    <3>3. v.auth => auth
      BY <2>1, <2>2
    <3> HIDE DEF v, q, h
    <3>4. WindowSaid(z, hostPerm, auth, v, hostDown', unsent')
      <4>1. Kept(z)!AudioOff \in FromWindow(z) /\ Kept(z)!AudioOff.m = "switch" /\ Kept(z)!AudioOff.name = "audio"
        BY SessionAudioIsOff
      <4>2. WindowSaid(z, hostPerm, auth, v, Append(hostDown, Kept(z)!AudioOff), unsent')
        BY <1>6, <3>1, <3>2, <3>3, <4>1, SessionSaysMore
      <4> QED
        BY <3>1, <4>2
    <3> QED
      BY <2>2, <3>4
  <2>4. CASE hostCm = "waiting"
    <3>1. hostDown = <<>> /\ h.perm = hostPerm
      BY <1>1, <1>2, <2>4 DEF SessionInv, SessionLife, WindowHears
    <3>2. WindowSaid(z, hostPerm, auth, v, hostDown, TRUE)
      BY <2>1, <2>2, <2>4, <3>1 DEF WindowSaid, Kept!Perm
    <3>3. CASE ~b
      BY <1>1, <1>6, <2>2, <3>2, <3>3
    <3>4. CASE b
      <4>1. \A n \in Kept(z)!Perm : n \in v.perm <=> IF Kept(z)!AudioOff.m = "switch" /\ Kept(z)!AudioOff.name = n
             THEN Kept(z)!AudioOff.on ELSE n \in v.perm
        BY <1>4, <2>2, SessionAudioIsOff
      <4>2. hostDown' = Append(hostDown, Kept(z)!AudioOff)
        BY <1>6, <3>4
      <4> HIDE DEF v, q, h
      <4> QED
        <5>1. Kept(z)!AudioOff \in FromWindow(z) /\ Kept(z)!AudioOff.m = "switch" /\ Kept(z)!AudioOff.name = "audio"
          BY SessionAudioIsOff
        <5>2. WindowSaid(z, hostPerm, auth, v, Append(hostDown, Kept(z)!AudioOff), unsent')
          BY <1>6, <3>2, <4>1, <5>1, SessionSaysMore
        <5> QED
          BY <2>2, <4>2, <5>2
    <3> QED
      BY <3>3, <3>4
  <2> QED
    BY <1>1, <2>3, <2>4
<1> QED
  <2> HIDE DEF q, h
  <2> QED
    BY <1>1, <1>3, <1>4, <1>5, <1>7, <1>8, <1>9, <1>10, <1>11 DEF SessionInv

\* The user clicks.
LEMMA SessionClicksStep ==
  ASSUME NEW z, SessionInv(z), NEW m \in FromWindow(z), NEW v \in [auth : BOOLEAN, perm : SUBSET Kept(z)!Perm],
         Kept(z)!Clicks(<<m>>, v),
         v.auth => ui.auth \/ m.m = "authorize", "audio" \notin v.perm,
         \A n \in Kept(z)!Perm : n \in v.perm <=> IF m.m = "switch" /\ m.name = n THEN m.on ELSE n \in ui.perm
  PROVE  SessionInv(z)'
<1>1. /\ hostPhase' = hostPhase /\ exit' = exit /\ closes' = closes /\ hostPerm' = hostPerm /\ opt' = opt /\ auth' = auth
       /\ kind' = kind
      /\ hostSubs' = hostSubs /\ entries' = entries /\ hostStale' = hostStale /\ gone' = gone /\ switched' = switched
         /\ hostUp' = hostUp
      /\ hostCm = "shown" /\ hostCm' = hostCm /\ clip' = clip /\ ui' = v /\ unsent' = FALSE
      /\ hostDown' = Kept(z)!Sends(Append(<<m>>, Kept(z)!AudioOff))
  BY DEF Kept!Clicks, Kept!life, Kept!flags, Kept!video
<1>2. hostDown \in Seq(FromWindow(z)) /\ Append(hostDown, m) \in Seq(FromWindow(z))
      /\ Append(Append(hostDown, m), Kept(z)!AudioOff) \in Seq(FromWindow(z))
  BY SessionQueue, SessionAudioIsOff DEF SessionInv, SessionTypes
<1>3. hostDown' = IF hostPhase = "ended" THEN hostDown ELSE Append(Append(hostDown, m), Kept(z)!AudioOff)
  BY <1>1, <1>2, SessionSendTwo DEF Kept!Sends
<1>4. SessionTypes(z)'
  BY <1>1, <1>2, <1>3 DEF SessionInv, SessionTypes
<1>5. SessionFlags'
  BY <1>1 DEF SessionInv, SessionFlags
<1>6. SessionLife(z)'
  BY <1>1 DEF SessionInv, SessionLife, Kept!ClosedOnce, Kept!LeftBehind, Kept!Ended
<1>7. SessionSubs(z)' /\ WindowHears(z)'
  BY <1>1 DEF SessionInv, SessionSubs, Kept!TunnelIsNotSession, WindowHears, TellsFiles, ToldFiles
<1>8. WindowSays(z)'
  <2> SUFFICES ASSUME hostPhase = "open" PROVE WindowSaid(z, hostPerm, auth, v, hostDown', FALSE)
    BY <1>1 DEF WindowSays
  <2>1. WindowSaid(z, hostPerm, auth, ui, hostDown, unsent)
    BY <1>1 DEF SessionInv, WindowSays
  <2>2. WindowSaid(z, hostPerm, auth, v, Append(hostDown, m), unsent)
    BY <1>2, <2>1, SessionSaysMore
  <2>3. \A n \in Kept(z)!Perm : n \in v.perm <=> IF Kept(z)!AudioOff.m = "switch" /\ Kept(z)!AudioOff.name = n
         THEN Kept(z)!AudioOff.on ELSE n \in v.perm
    BY SessionAudioIsOff
  <2>4. WindowSaid(z, hostPerm, auth, v, Append(Append(hostDown, m), Kept(z)!AudioOff), FALSE)
    BY <1>2, <2>2, <2>3, SessionAudioIsOff, SessionSaysMore
  <2> QED
    BY <1>3, <2>4
<1> QED
  BY <1>1, <1>4, <1>5, <1>6, <1>7, <1>8 DEF SessionInv

LEMMA SessionUserStep == ASSUME NEW z, SessionInv(z), Kept(z)!User PROVE SessionInv(z)'
<1>1. ui \in [auth : BOOLEAN, perm : SUBSET Kept(z)!Perm] /\ "audio" \notin ui.perm
  BY DEF SessionInv, SessionTypes
<1>2. CASE Kept(z)!Accept
  <2> DEFINE v == [ui EXCEPT !.auth = TRUE]
             m == [m |-> "authorize"]
  <2>1. v \in [auth : BOOLEAN, perm : SUBSET Kept(z)!Perm] /\ v.perm = ui.perm /\ m \in FromWindow(z) /\ m.m = "authorize"
    BY <1>1, SessionDownMessages
  <2>2. Kept(z)!Clicks(<<m>>, v)
    BY <1>2 DEF Kept!Accept
  <2> HIDE DEF v, m
  <2> QED
    BY <1>1, <2>1, <2>2, SessionClicksStep
<1>3. CASE Kept(z)!Disconnect
  <2> DEFINE m == [m |-> "close"]
  <2>1. m \in FromWindow(z) /\ m.m = "close" /\ Kept(z)!Clicks(<<m>>, ui)
    BY <1>3, SessionDownMessages DEF Kept!Disconnect
  <2> HIDE DEF m
  <2> QED
    BY <1>1, <2>1, SessionClicksStep
<1>4. ASSUME NEW n \in {"keyboard", "clipboard", "file"}, Kept(z)!Toggle(n) PROVE SessionInv(z)'
  <2> DEFINE v == [ui EXCEPT !.perm = IF n \in @ THEN @ \ {n} ELSE @ \cup {n}]
             m == [m |-> "switch", name |-> n, on |-> n \notin ui.perm]
  <2>1. n \in Kept(z)!Perm /\ n # "audio"
    BY DEF Kept!Perm
  <2>2. m \in FromWindow(z) /\ m.m = "switch" /\ m.name = n /\ (m.on <=> n \notin ui.perm)
    BY <2>1, SessionDownMessages
  <2>3. v.auth = ui.auth /\ v.perm = IF n \in ui.perm THEN ui.perm \ {n} ELSE ui.perm \cup {n}
    BY <1>1
  <2>4. v \in [auth : BOOLEAN, perm : SUBSET Kept(z)!Perm] /\ "audio" \notin v.perm
    BY <1>1, <2>1, <2>3
  <2>5. \A x \in Kept(z)!Perm : x \in v.perm <=> IF m.m = "switch" /\ m.name = x THEN m.on ELSE x \in ui.perm
    BY <2>2, <2>3
  <2>6. Kept(z)!Clicks(<<m>>, v)
    BY <1>4 DEF Kept!Toggle
  <2> HIDE DEF v, m
  <2> QED
    BY <2>2, <2>3, <2>4, <2>5, <2>6, SessionClicksStep
<1> QED
  BY <1>2, <1>3, <1>4 DEF Kept!User

LEMMA SessionStep == ASSUME NEW z, SessionInv(z), [Kept(z)!Next]_(Kept(z)!vars) PROVE SessionInv(z)'
<1>1. CASE UNCHANGED Kept(z)!vars
  BY <1>1 DEF Kept!vars, Kept!life, Kept!flags, Kept!video, Kept!side, SessionInv, SessionTypes, SessionFlags,
    SessionLife, Kept!ClosedOnce, Kept!LeftBehind,
    Kept!Ended, SessionSubs, Kept!TunnelIsNotSession, WindowHears, TellsFiles, ToldFiles, WindowSays
<1>2. ASSUME Kept(z)!Commands PROVE SessionInv(z)'
  BY <1>2, SessionEndStep, SessionAuthorizeStep, SessionSwitchStep DEF Kept!Commands
<1>3. ASSUME Kept(z)!Peer PROVE SessionInv(z)'
  BY <1>3, SessionEndStep, SessionQuietStep, SessionLoginStep, SessionOptionStep DEF Kept!Peer
<1>4. ASSUME Kept(z)!Manager PROVE SessionInv(z)'
  BY <1>4, SessionManagerStep, SessionShowsStep DEF Kept!Manager
<1> QED
  BY <1>1, <1>2, <1>3, <1>4, SessionEndStep, SessionQuietStep, SessionUserStep DEF Kept!Next

\* What is promised of a session and its window follows.
LEMMA SessionHolds ==
  ASSUME NEW z, SessionInv(z)
  PROVE  Kept(z)!TypeOK /\ Kept(z)!ClosedOnce /\ Kept(z)!LeftBehind /\ Kept(z)!TunnelIsNotSession
         /\ Kept(z)!SubsFollowFlags /\ Kept(z)!WindowIsTrue
<1>1. Kept(z)!TypeOK
  <2>1. {auth, hostStale, gone, switched, unsent, clip} \subseteq BOOLEAN
    BY Zenon DEF SessionInv, SessionFlags
  <2> QED
    BY <2>1 DEF SessionInv, SessionTypes, SessionLife, Kept!TypeOK
<1>2. Kept(z)!ClosedOnce /\ Kept(z)!LeftBehind /\ Kept(z)!TunnelIsNotSession
  BY DEF SessionInv, SessionLife, SessionSubs
<1>3. Kept(z)!SubsFollowFlags
  BY DEF SessionInv, SessionSubs, Kept!SubsFollowFlags
<1>4. Kept(z)!WindowIsTrue
  <2> SUFFICES ASSUME hostCm = "shown", Kept(z)!Quiet, hostPhase = "open"
        PROVE /\ ui.auth => auth
              /\ \A n \in Kept(z)!Perm : (n \in ui.perm <=> n \in hostPerm) \/ (n = "file" /\ z.no) \/ (n = "audio" /\ unsent)
              /\ clip = Kept(z)!FilesAllowed(hostPerm, opt)
    BY DEF Kept!WindowIsTrue
  <2>1. WindowSaid(z, hostPerm, auth, ui, <<>>, unsent)
    BY DEF Kept!Quiet, SessionInv, WindowSays
  <2>2. clip <=> Kept(z)!FilesAllowed(hostPerm, opt)
    BY DEF Kept!Quiet, SessionInv, WindowHears
  <2>3. clip \in BOOLEAN /\ Kept(z)!FilesAllowed(hostPerm, opt) \in BOOLEAN
    BY DEF SessionInv, SessionFlags, Kept!FilesAllowed
  <2>4. clip = Kept(z)!FilesAllowed(hostPerm, opt)
    BY <2>2, <2>3
  <2> QED
    BY <2>1, <2>4 DEF WindowSaid
<1> QED
  BY <1>1, <1>2, <1>3, <1>4

\* The two settings of MCHost.
Ordinary == [no |-> FALSE, fault |-> Bound({"oplog", "display"}, {})]
FilesRefused == [no |-> TRUE, fault |-> {}]

\* The part of the sessions is the setting Ordinary: every step of the one is a step of the other,
\* and so is what is promised.
LEMMA HostAre ==
  /\ Host!SessionAssumption => Kept(Ordinary)!SessionAssumption
  /\ Host!Init => Kept(Ordinary)!Init
  /\ [Host!Next]_(Host!vars) => [Kept(Ordinary)!Next]_(Kept(Ordinary)!vars)
  /\ Kept(Ordinary)!TypeOK => Host!TypeOK
  /\ Kept(Ordinary)!ClosedOnce => Host!ClosedOnce
  /\ Kept(Ordinary)!LeftBehind => Host!LeftBehind
  /\ Kept(Ordinary)!TunnelIsNotSession => Host!TunnelIsNotSession
  /\ Kept(Ordinary)!SubsFollowFlags => Host!SubsFollowFlags
  /\ Kept(Ordinary)!WindowIsTrue => Host!WindowIsTrue
<1> DEFINE z == Ordinary
<1>0. z.no = FALSE /\ z.fault = Bound({"oplog", "display"}, {})
  BY DEF Ordinary
<1> HIDE DEF z
<1>1. /\ Host!SessionAssumption => Kept(z)!SessionAssumption
      /\ Host!Init => Kept(z)!Init
      /\ UNCHANGED Host!vars => UNCHANGED Kept(z)!vars
  BY <1>0 DEF Host!SessionAssumption, Kept!SessionAssumption, Host!Perm, Kept!Perm, Host!Init, Kept!Init, Host!vars,
    Kept!vars, Host!life, Kept!life, Host!flags, Kept!flags, Host!video, Kept!video, Host!side, Kept!side
<1>2. /\ Kept(z)!TypeOK => Host!TypeOK
      /\ Kept(z)!ClosedOnce => Host!ClosedOnce
      /\ Kept(z)!LeftBehind => Host!LeftBehind
      /\ Kept(z)!TunnelIsNotSession => Host!TunnelIsNotSession
  BY DEF Host!TypeOK, Kept!TypeOK, Host!ClosedOnce, Kept!ClosedOnce, Host!LeftBehind, Kept!LeftBehind,
    Host!TunnelIsNotSession, Kept!TunnelIsNotSession, Host!Ended, Kept!Ended, Host!Perm, Kept!Perm, Host!Option,
    Kept!Option, Host!Services, Kept!Services
<1>3. Kept(z)!SubsFollowFlags => Host!SubsFollowFlags
  BY DEF Host!SubsFollowFlags, Kept!SubsFollowFlags, Host!AudioAllowed, Kept!AudioAllowed, Host!CursorAllowed,
    Kept!CursorAllowed, Host!ClipboardAllowed, Kept!ClipboardAllowed
<1>4. Kept(z)!WindowIsTrue => Host!WindowIsTrue
  BY <1>0 DEF Host!WindowIsTrue, Kept!WindowIsTrue, Host!Quiet, Kept!Quiet, Host!FilesAllowed, Kept!FilesAllowed,
    Host!Perm, Kept!Perm
<1>5. /\ Host!Panics => Kept(z)!Panics
      /\ \A how : Host!OnClose(how) => Kept(z)!OnClose(how)
  BY <1>0 DEF Host!Panics, Kept!Panics, Host!OnClose, Kept!OnClose, Host!Tell, Kept!Tell, Host!flags, Kept!flags,
    Host!side, Kept!side
<1>6. \A how : Host!CloseLoop(how) => Kept(z)!CloseLoop(how)
  BY <1>5 DEF Host!CloseLoop, Kept!CloseLoop, Host!AfterLoop, Kept!AfterLoop
<1>7. /\ Host!Fails => Kept(z)!Fails
      /\ Host!Timeout => Kept(z)!Timeout
      /\ Host!IdleOut => Kept(z)!IdleOut
      /\ Host!TunnelEnds => Kept(z)!TunnelEnds
      /\ Host!CloseRequested => Kept(z)!CloseRequested
      /\ Host!FileAction => Kept(z)!FileAction
  BY <1>5, <1>6 DEF Host!Fails, Kept!Fails, Host!Timeout, Kept!Timeout, Host!IdleOut, Kept!IdleOut, Host!TunnelEnds,
    Kept!TunnelEnds, Host!CloseRequested, Kept!CloseRequested, Host!FileAction, Kept!FileAction, Host!AfterLoop,
    Kept!AfterLoop
<1>8. /\ Host!Open => Kept(z)!Open
      /\ Host!GrowsStale => Kept(z)!GrowsStale
      /\ Host!Message => Kept(z)!Message
      /\ Host!TestDelay => Kept(z)!TestDelay
      /\ Host!Vanish => Kept(z)!Vanish
  BY DEF Host!Open, Kept!Open, Host!GrowsStale, Kept!GrowsStale, Host!Message, Kept!Message, Host!TestDelay,
    Kept!TestDelay, Host!Vanish, Kept!Vanish, Host!life, Kept!life, Host!flags, Kept!flags, Host!video, Kept!video,
    Host!side, Kept!side
<1>9. \A k : Host!LogonResponse(k) => Kept(z)!LogonResponse(k)
  BY <1>0 DEF Host!LogonResponse, Kept!LogonResponse, Host!Joined, Kept!Joined, Host!AudioAllowed, Kept!AudioAllowed,
    Host!CursorAllowed, Kept!CursorAllowed, Host!ClipboardAllowed, Kept!ClipboardAllowed
<1>10. \A k, w, r : Host!Login(k, w, r) => Kept(z)!Login(k, w, r)
  BY <1>0, <1>9 DEF Host!Login, Kept!Login, Host!LoginKind, Kept!LoginKind, Host!LoginShown, Kept!LoginShown,
    Host!FilesAllowed, Kept!FilesAllowed, Host!Tell, Kept!Tell, Host!Refused, Kept!Refused, Host!ToTunnel, Kept!ToTunnel,
    Host!AfterLoop, Kept!AfterLoop, Host!life, Kept!life, Host!side, Kept!side
<1>11. \A x, q, l : Host!SetOption(x, q, l) => Kept(z)!SetOption(x, q, l)
  BY DEF Host!SetOption, Kept!SetOption, Host!OptionUpdate, Kept!OptionUpdate, Host!Subscribed, Kept!Subscribed, Host!Sub,
    Kept!Sub, Host!AudioAllowed, Kept!AudioAllowed, Host!CursorAllowed, Kept!CursorAllowed, Host!ClipboardAllowed,
    Kept!ClipboardAllowed, Host!FilesAllowed, Kept!FilesAllowed, Host!Tell, Kept!Tell, Host!life, Kept!life, Host!side,
    Kept!side
<1>12. (Host!Authorize => Kept(z)!Authorize) /\ (Host!AuthorizePanics => Kept(z)!AuthorizePanics)
  BY <1>0, <1>9 DEF Host!Authorize, Kept!Authorize, Host!AuthorizePanics, Kept!AuthorizePanics, Host!Command,
    Kept!Command, Host!ToTunnel, Kept!ToTunnel, Host!AfterLoop, Kept!AfterLoop, Host!life, Kept!life, Host!side, Kept!side
<1>13. Host!SwitchPermission => Kept(z)!SwitchPermission
  BY DEF Host!SwitchPermission, Kept!SwitchPermission, Host!Command, Kept!Command, Host!Sub, Kept!Sub, Host!AudioAllowed,
    Kept!AudioAllowed, Host!CursorAllowed, Kept!CursorAllowed, Host!ClipboardAllowed, Kept!ClipboardAllowed,
    Host!FilesAllowed, Kept!FilesAllowed, Host!Tell, Kept!Tell, Host!life, Kept!life, Host!video, Kept!video, Host!side,
    Kept!side
<1>14. \A b \in BOOLEAN : (Host!Connects(b) => Kept(z)!Connects(b)) /\ (Host!Shows(b) => Kept(z)!Shows(b))
  BY <1>0 DEF Host!Connects, Kept!Connects, Host!Shows, Kept!Shows, Host!Sends, Kept!Sends, Host!AudioOff, Kept!AudioOff,
    Host!life, Kept!life, Host!flags, Kept!flags, Host!video, Kept!video
<1>15. /\ Host!ClipEnabled => Kept(z)!ClipEnabled
       /\ Host!CmCloses => Kept(z)!CmCloses
       /\ Host!CmDropped => Kept(z)!CmDropped
  BY DEF Host!ClipEnabled, Kept!ClipEnabled, Host!CmCloses, Kept!CmCloses, Host!CmDropped, Kept!CmDropped, Host!life,
    Kept!life, Host!flags, Kept!flags, Host!video, Kept!video
<1>16. Host!User => Kept(z)!User
  BY DEF Host!User, Kept!User, Host!Accept, Kept!Accept, Host!Disconnect, Kept!Disconnect, Host!Toggle, Kept!Toggle,
    Host!Clicks, Kept!Clicks, Host!Sends, Kept!Sends, Host!AudioOff, Kept!AudioOff, Host!life, Kept!life, Host!flags,
    Kept!flags, Host!video, Kept!video
<1>17. Host!Peer => Kept(z)!Peer
  BY <1>7, <1>8, <1>10, <1>11 DEF Host!Peer, Kept!Peer, Host!Option, Kept!Option
<1>18. Host!Manager => Kept(z)!Manager
  BY <1>14, <1>15 DEF Host!Manager, Kept!Manager
<1>19. Host!Commands => Kept(z)!Commands
  BY <1>7, <1>12, <1>13 DEF Host!Commands, Kept!Commands
<1>20. Host!Next => Kept(z)!Next
  BY <1>7, <1>8, <1>16, <1>17, <1>18, <1>19 DEF Host!Next, Kept!Next
<1> QED
  BY <1>1, <1>2, <1>3, <1>4, <1>20 DEF z

\* The part of the peer whose files are refused is the setting FilesRefused.
LEMMA RefusedAre ==
  /\ Refused!SessionAssumption => Kept(FilesRefused)!SessionAssumption
  /\ Refused!Init => Kept(FilesRefused)!Init
  /\ [Refused!Next]_(Refused!vars) => [Kept(FilesRefused)!Next]_(Kept(FilesRefused)!vars)
  /\ Kept(FilesRefused)!TypeOK => Refused!TypeOK
  /\ Kept(FilesRefused)!ClosedOnce => Refused!ClosedOnce
  /\ Kept(FilesRefused)!LeftBehind => Refused!LeftBehind
  /\ Kept(FilesRefused)!TunnelIsNotSession => Refused!TunnelIsNotSession
  /\ Kept(FilesRefused)!SubsFollowFlags => Refused!SubsFollowFlags
  /\ Kept(FilesRefused)!WindowIsTrue => Refused!WindowIsTrue
<1> DEFINE z == FilesRefused
<1>0. z.no = TRUE /\ z.fault = {}
  BY DEF FilesRefused
<1> HIDE DEF z
<1>1. /\ Refused!SessionAssumption => Kept(z)!SessionAssumption
      /\ Refused!Init => Kept(z)!Init
      /\ UNCHANGED Refused!vars => UNCHANGED Kept(z)!vars
  BY <1>0 DEF Refused!SessionAssumption, Kept!SessionAssumption, Refused!Perm, Kept!Perm, Refused!Init, Kept!Init,
    Refused!vars, Kept!vars, Refused!life, Kept!life, Refused!flags, Kept!flags, Refused!video, Kept!video, Refused!side,
    Kept!side
<1>2. /\ Kept(z)!TypeOK => Refused!TypeOK
      /\ Kept(z)!ClosedOnce => Refused!ClosedOnce
      /\ Kept(z)!LeftBehind => Refused!LeftBehind
      /\ Kept(z)!TunnelIsNotSession => Refused!TunnelIsNotSession
  BY DEF Refused!TypeOK, Kept!TypeOK, Refused!ClosedOnce, Kept!ClosedOnce, Refused!LeftBehind, Kept!LeftBehind,
    Refused!TunnelIsNotSession, Kept!TunnelIsNotSession, Refused!Ended, Kept!Ended, Refused!Perm, Kept!Perm,
    Refused!Option, Kept!Option, Refused!Services, Kept!Services
<1>3. Kept(z)!SubsFollowFlags => Refused!SubsFollowFlags
  BY DEF Refused!SubsFollowFlags, Kept!SubsFollowFlags, Refused!AudioAllowed, Kept!AudioAllowed, Refused!CursorAllowed,
    Kept!CursorAllowed, Refused!ClipboardAllowed, Kept!ClipboardAllowed
<1>4. Kept(z)!WindowIsTrue => Refused!WindowIsTrue
  BY <1>0 DEF Refused!WindowIsTrue, Kept!WindowIsTrue, Refused!Quiet, Kept!Quiet, Refused!FilesAllowed, Kept!FilesAllowed,
    Refused!Perm, Kept!Perm
<1>5. /\ Refused!Panics => Kept(z)!Panics
      /\ \A how : Refused!OnClose(how) => Kept(z)!OnClose(how)
  BY <1>0 DEF Refused!Panics, Kept!Panics, Refused!OnClose, Kept!OnClose, Refused!Tell, Kept!Tell, Refused!flags,
    Kept!flags, Refused!side, Kept!side
<1>6. \A how : Refused!CloseLoop(how) => Kept(z)!CloseLoop(how)
  BY <1>5 DEF Refused!CloseLoop, Kept!CloseLoop, Refused!AfterLoop, Kept!AfterLoop
<1>7. /\ Refused!Fails => Kept(z)!Fails
      /\ Refused!Timeout => Kept(z)!Timeout
      /\ Refused!IdleOut => Kept(z)!IdleOut
      /\ Refused!TunnelEnds => Kept(z)!TunnelEnds
      /\ Refused!CloseRequested => Kept(z)!CloseRequested
      /\ Refused!FileAction => Kept(z)!FileAction
  BY <1>5, <1>6 DEF Refused!Fails, Kept!Fails, Refused!Timeout, Kept!Timeout, Refused!IdleOut, Kept!IdleOut,
    Refused!TunnelEnds, Kept!TunnelEnds, Refused!CloseRequested, Kept!CloseRequested, Refused!FileAction, Kept!FileAction,
    Refused!AfterLoop, Kept!AfterLoop
<1>8. /\ Refused!Open => Kept(z)!Open
      /\ Refused!GrowsStale => Kept(z)!GrowsStale
      /\ Refused!Message => Kept(z)!Message
      /\ Refused!TestDelay => Kept(z)!TestDelay
      /\ Refused!Vanish => Kept(z)!Vanish
  BY DEF Refused!Open, Kept!Open, Refused!GrowsStale, Kept!GrowsStale, Refused!Message, Kept!Message, Refused!TestDelay,
    Kept!TestDelay, Refused!Vanish, Kept!Vanish, Refused!life, Kept!life, Refused!flags, Kept!flags, Refused!video,
    Kept!video, Refused!side, Kept!side
<1>9. \A k : Refused!LogonResponse(k) => Kept(z)!LogonResponse(k)
  BY <1>0 DEF Refused!LogonResponse, Kept!LogonResponse, Refused!Joined, Kept!Joined, Refused!AudioAllowed,
    Kept!AudioAllowed, Refused!CursorAllowed, Kept!CursorAllowed, Refused!ClipboardAllowed, Kept!ClipboardAllowed
<1>10. \A k, w, r : Refused!Login(k, w, r) => Kept(z)!Login(k, w, r)
  BY <1>0, <1>9 DEF Refused!Login, Kept!Login, Refused!LoginKind, Kept!LoginKind, Refused!LoginShown, Kept!LoginShown,
    Refused!FilesAllowed, Kept!FilesAllowed, Refused!Tell, Kept!Tell, Refused!Refused, Kept!Refused, Refused!ToTunnel,
    Kept!ToTunnel, Refused!AfterLoop, Kept!AfterLoop, Refused!life, Kept!life, Refused!side, Kept!side
<1>11. \A x, q, l : Refused!SetOption(x, q, l) => Kept(z)!SetOption(x, q, l)
  BY DEF Refused!SetOption, Kept!SetOption, Refused!OptionUpdate, Kept!OptionUpdate, Refused!Subscribed, Kept!Subscribed,
    Refused!Sub, Kept!Sub, Refused!AudioAllowed, Kept!AudioAllowed, Refused!CursorAllowed, Kept!CursorAllowed,
    Refused!ClipboardAllowed, Kept!ClipboardAllowed, Refused!FilesAllowed, Kept!FilesAllowed, Refused!Tell, Kept!Tell,
    Refused!life, Kept!life, Refused!side, Kept!side
<1>12. (Refused!Authorize => Kept(z)!Authorize) /\ (Refused!AuthorizePanics => Kept(z)!AuthorizePanics)
  BY <1>0, <1>9 DEF Refused!Authorize, Kept!Authorize, Refused!AuthorizePanics, Kept!AuthorizePanics, Refused!Command,
    Kept!Command, Refused!ToTunnel, Kept!ToTunnel, Refused!AfterLoop, Kept!AfterLoop, Refused!life, Kept!life,
    Refused!side, Kept!side
<1>13. Refused!SwitchPermission => Kept(z)!SwitchPermission
  BY DEF Refused!SwitchPermission, Kept!SwitchPermission, Refused!Command, Kept!Command, Refused!Sub, Kept!Sub,
    Refused!AudioAllowed, Kept!AudioAllowed, Refused!CursorAllowed, Kept!CursorAllowed, Refused!ClipboardAllowed,
    Kept!ClipboardAllowed, Refused!FilesAllowed, Kept!FilesAllowed, Refused!Tell, Kept!Tell, Refused!life, Kept!life,
    Refused!video, Kept!video, Refused!side, Kept!side
<1>14. \A b \in BOOLEAN : (Refused!Connects(b) => Kept(z)!Connects(b)) /\ (Refused!Shows(b) => Kept(z)!Shows(b))
  BY <1>0 DEF Refused!Connects, Kept!Connects, Refused!Shows, Kept!Shows, Refused!Sends, Kept!Sends, Refused!AudioOff,
    Kept!AudioOff, Refused!life, Kept!life, Refused!flags, Kept!flags, Refused!video, Kept!video
<1>15. /\ Refused!ClipEnabled => Kept(z)!ClipEnabled
       /\ Refused!CmCloses => Kept(z)!CmCloses
       /\ Refused!CmDropped => Kept(z)!CmDropped
  BY DEF Refused!ClipEnabled, Kept!ClipEnabled, Refused!CmCloses, Kept!CmCloses, Refused!CmDropped, Kept!CmDropped,
    Refused!life, Kept!life, Refused!flags, Kept!flags, Refused!video, Kept!video
<1>16. Refused!User => Kept(z)!User
  BY DEF Refused!User, Kept!User, Refused!Accept, Kept!Accept, Refused!Disconnect, Kept!Disconnect, Refused!Toggle,
    Kept!Toggle, Refused!Clicks, Kept!Clicks, Refused!Sends, Kept!Sends, Refused!AudioOff, Kept!AudioOff, Refused!life,
    Kept!life, Refused!flags, Kept!flags, Refused!video, Kept!video
<1>17. Refused!Peer => Kept(z)!Peer
  BY <1>7, <1>8, <1>10, <1>11 DEF Refused!Peer, Kept!Peer, Refused!Option, Kept!Option
<1>18. Refused!Manager => Kept(z)!Manager
  BY <1>14, <1>15 DEF Refused!Manager, Kept!Manager
<1>19. Refused!Commands => Kept(z)!Commands
  BY <1>7, <1>12, <1>13 DEF Refused!Commands, Kept!Commands
<1>20. Refused!Next => Kept(z)!Next
  BY <1>7, <1>8, <1>16, <1>17, <1>18, <1>19 DEF Refused!Next, Kept!Next
<1> QED
  BY <1>1, <1>2, <1>3, <1>4, <1>20 DEF z

-----------------------------------------------------------------------------
(* The sessions and their windows. *)

SessionsInv ==
  /\ Inv
  /\ part # "session_refused" => SessionInv(Ordinary)
  /\ part = "session_refused" => SessionInv(FilesRefused)
  /\ WindowsInv

LEMMA SessionsInvariance == PartsSpec => []SessionsInv
<1>1. PartsInit => SessionsInv
  <2> SUFFICES ASSUME PartsInit PROVE SessionsInv
    OBVIOUS
  <2>1. SessionInv(Ordinary)
    BY PartsAssumption, HostAre, SessionInit DEF PartsInit
  <2>2. Host!Init => Refused!Init
    BY DEF Host!Init, Refused!Init
  <2>3. SessionInv(FilesRefused)
    BY <2>2, PartsAssumption, RefusedAre, SessionInit DEF PartsInit
  <2>4. Inv /\ WindowsInv
    BY InitInv, WindowsInit DEF PartsInit
  <2> QED
    BY <2>1, <2>3, <2>4 DEF SessionsInv
<1>2. SessionsInv /\ [PartsNext]_partsVars => SessionsInv'
  <2> SUFFICES ASSUME SessionsInv, [PartsNext]_partsVars PROVE SessionsInv'
    OBVIOUS
  <2>1. Inv' /\ WindowsInv' /\ part' = part
    BY PartsMove, NextInv, Stutter, WindowsStep DEF SessionsInv
  <2>2. CASE part # "session_refused"
    BY <2>1, <2>2, PartsMove, HostAre, SessionStep DEF SessionsInv
  <2>3. CASE part = "session_refused"
    BY <2>1, <2>3, PartsMove, RefusedAre, SessionStep DEF SessionsInv
  <2> QED
    BY <2>2, <2>3
<1> QED
  BY <1>1, <1>2, PTL DEF PartsSpec

\* However the options and permissions are switched and the session ends, it is subscribed to what
\* its flags allow, leaves behind what its end does not undo and no more, and is no session when it
\* is a tunnel (server/connection.rs, start, on_close, send_logon_response).
THEOREM SessionsKeepBounds == PartsSpec => []SessionKeepsBounds
<1>1. SessionsInv => SessionKeepsBounds
  BY HostAre, SessionHolds DEF SessionsInv, SessionKeepsBounds, Inv
<1> QED
  BY <1>1, SessionsInvariance, PTL

\* What the user of the controlled side is shown is in force once the queues are empty, and who has
\* logged in is shown, in one window, or for a reason alone (ui/cm.rs; ipc.rs; connection.rs, start_ipc).
THEOREM WindowsTellTheTruth == PartsSpec => []WindowsAreTrue
<1>1. ASSUME SessionsInv PROVE Windows!TypeOK /\ Windows!UnseenIsExplained /\ Windows!OneWindow /\ Windows!AloneIsExplained
  <2>1. Windows!TypeOK
    BY <1>1, WindowsBounds DEF SessionsInv, WindowsInv, WindowsTypes, WindowsAttached, Windows!TypeOK, Windows!Listening,
      Windows!AttachedTo
  <2>2. Windows!OneWindow
    BY <1>1 DEF SessionsInv, WindowsInv, WindowsPath, Windows!OneWindow, Windows!Listening
  <2>3. Windows!UnseenIsExplained /\ Windows!AloneIsExplained
    BY <1>1 DEF SessionsInv, WindowsInv, WindowsTypes, WindowsLives, Windows!UnseenIsExplained, Windows!AloneIsExplained
  <2> QED
    BY <2>1, <2>2, <2>3
<1>2. SessionsInv => WindowsAreTrue
  BY <1>1, HostAre, RefusedAre, SessionHolds DEF SessionsInv, WindowsAreTrue
<1> QED
  BY <1>2, SessionsInvariance, PTL

-----------------------------------------------------------------------------
(* The settings, on two files (Stored). *)

\* The key pair the machine has.
StoredKey == storedFile["system"].key
\* A copy that says its key is confirmed has that one.
KeyAgrees(cfg) == cfg.confirmed => cfg.key = StoredKey /\ cfg.key # 0

\* Why nothing is lost: the server's file has a single writer, whose copy is never behind it; and a
\* window's copy takes a key for confirmed only when it is the server's.
StoredCopies ==
  /\ storedFile \in [Stored!Homes -> Stored!Config]
  /\ mem \in [Stored!Process -> Stored!Config \cup {None}]
  /\ kept \in Texts \cup {0} /\ storedStale \in BOOLEAN
  /\ mem[Server] \in {None, storedFile["system"]}
  /\ storedFile["system"].password = kept
  /\ \A h \in Stored!Homes : KeyAgrees(storedFile[h])
  /\ \A c \in Client : mem[c] # None => KeyAgrees(mem[c])

\* What a question of a window may be ...
StoredAsk ==
  {Stored!Unasked} \cup [is : {"asked"}, field : Stored!Text \cup {"id"}]
    \cup [is : {"told"}, field : Stored!Text, value : Texts \cup {0}]
    \cup [is : {"told"}, field : {"id"}, value : 0 .. 1 + MaxIds]
\* ... and how far its synchronisation is.
StoredSync == {Stored!Off} \cup [is : {"look", "wait", "pair", "done"}, n : 0 .. 3, linked : BOOLEAN]

\* The types of what is under way.
StoredTalk ==
  /\ storedUp \in BOOLEAN
  /\ calls \in [Client -> Seq([field : Stored!Text, value : Texts])]
  /\ ask \in [Client -> StoredAsk]
  /\ sync \in [Client -> StoredSync]
  /\ made \in 0 .. MaxKeys /\ drawn \in 0 .. MaxIds /\ storedExits \in 0 .. MaxExits /\ sent \in 0 .. MaxCalls

\* A window that has taken the pair and not yet said so has the server's, which is there to stay.
StoredPairs ==
  \A c \in Client : sync[c].is = "pair" => mem[c] # None /\ mem[c].key = StoredKey /\ StoredKey # 0

\* All of it.
StoredInv == StoredCopies /\ StoredTalk /\ StoredPairs

\* What the constants of the settings are.
LEMMA StoredBounds ==
  /\ Server \notin Client /\ Texts \subseteq Nat \ {0} /\ None \notin Stored!Config
  /\ MaxKeys \in Nat /\ MaxIds \in Nat /\ MaxExits \in Nat /\ MaxCalls \in Nat
BY PartsAssumption DEF Stored!SharedConfigAssumption

\* The files: that of the service and its server, and that of the window.
LEMMA StoredHomes ==
  /\ Stored!Process = Client \cup {Server}
  /\ Stored!Homes = {"system"} \cup {"user" : c \in Client}
  /\ \A c \in Client : c # Server
BY StoredBounds DEF Stored!Homes, Stored!Process

\* A copy that was not read yet is the file; the server's is never another.
LEMMA StoredLoad ==
  ASSUME StoredCopies
  PROVE  /\ Stored!Load(Server) = storedFile["system"] /\ Stored!Load(Server) \in Stored!Config
         /\ \A c \in Client : Stored!Load(c) = (IF mem[c] = None THEN storedFile["user"] ELSE mem[c])
         /\ \A c \in Client : Stored!Load(c) \in Stored!Config /\ KeyAgrees(Stored!Load(c))
<1>1. Stored!Load(Server) = storedFile["system"] /\ storedFile["system"] \in Stored!Config
  BY StoredHomes DEF StoredCopies, Stored!Load
<1>2. ASSUME NEW c \in Client
      PROVE  /\ Stored!Load(c) = (IF mem[c] = None THEN storedFile["user"] ELSE mem[c])
             /\ Stored!Load(c) \in Stored!Config /\ KeyAgrees(Stored!Load(c))
  <2>1. Stored!Load(c) = (IF mem[c] = None THEN storedFile["user"] ELSE mem[c])
    BY StoredHomes DEF Stored!Load
  <2>2. "user" \in Stored!Homes /\ c \in Stored!Process
    BY StoredHomes
  <2> QED
    BY <2>1, <2>2 DEF StoredCopies
<1> QED
  BY <1>1, <1>2

\* The server changes a setting: its file follows, and a key that is there stays.
LEMMA StoredServerPut ==
  ASSUME StoredCopies, NEW cfg \in Stored!Config, Stored!Put(Server, cfg),
         StoredKey # 0 => cfg.key = StoredKey, cfg.confirmed => cfg.key # 0
  PROVE  /\ StoredCopies' /\ (StoredKey # 0 => StoredKey' = StoredKey)
         /\ \A c \in Client : mem'[c] = mem[c]
<1>1. Stored!Load(Server) = storedFile["system"]
  BY StoredLoad
<1>2. /\ mem' = [mem EXCEPT ![Server] = cfg]
      /\ storedFile' = [storedFile EXCEPT !["system"] = cfg]
      /\ kept' = cfg.password
      /\ storedStale' \in BOOLEAN
  <2>1. storedFile' = [storedFile EXCEPT !["system"] = IF cfg = storedFile["system"] THEN @ ELSE cfg]
    BY <1>1, StoredHomes DEF Stored!Put
  <2>2. kept' = IF cfg.password # storedFile["system"].password THEN cfg.password ELSE kept
    BY <1>1, StoredHomes DEF Stored!Put
  <2>3. storedStale' \in BOOLEAN /\ mem' = [mem EXCEPT ![Server] = cfg]
    BY DEF Stored!Put, StoredCopies
  <2> QED
    BY <2>1, <2>2, <2>3 DEF StoredCopies
<1>3. storedFile' \in [Stored!Homes -> Stored!Config] /\ mem' \in [Stored!Process -> Stored!Config \cup {None}]
  BY <1>2, StoredHomes DEF StoredCopies
<1>4. mem'[Server] = cfg /\ storedFile'["system"] = cfg /\ \A c \in Client : mem'[c] = mem[c]
  BY <1>2, StoredHomes DEF StoredCopies
<1>5. \A h \in Stored!Homes \ {"system"} : storedFile'[h] = storedFile[h]
  BY <1>2 DEF StoredCopies
<1>6. StoredKey' = cfg.key /\ (StoredKey # 0 => StoredKey' = StoredKey)
  BY <1>4 DEF StoredKey
<1>7. \A h \in Stored!Homes : KeyAgrees(storedFile[h])'
  <2> SUFFICES ASSUME NEW h \in Stored!Homes PROVE KeyAgrees(storedFile[h])'
    OBVIOUS
  <2>1. CASE h = "system"
    BY <1>4, <1>6, <2>1 DEF KeyAgrees
  <2>2. CASE h # "system"
    BY <1>5, <1>6, <2>2 DEF KeyAgrees, StoredCopies
  <2> QED
    BY <2>1, <2>2
<1>8. \A c \in Client : mem'[c] # None => KeyAgrees(mem[c])'
  BY <1>4, <1>6 DEF KeyAgrees, StoredCopies
<1>9. kept' \in Texts \cup {0}
  BY <1>2 DEF Stored!Config
<1> QED
  BY <1>2, <1>3, <1>4, <1>6, <1>7, <1>8, <1>9 DEF StoredCopies

\* A window changes a setting: the server's file is not touched.
LEMMA StoredClientPut ==
  ASSUME StoredCopies, NEW c \in Client, NEW cfg \in Stored!Config, KeyAgrees(cfg), Stored!Put(c, cfg)
  PROVE  /\ StoredCopies' /\ StoredKey' = StoredKey
         /\ mem' = [mem EXCEPT ![c] = cfg]
<1>1. c # Server /\ "user" \in Stored!Homes
  BY StoredHomes
<1>2. /\ mem' = [mem EXCEPT ![c] = cfg]
      /\ storedFile' = storedFile \/ storedFile' = [storedFile EXCEPT !["user"] = cfg]
      /\ kept' = kept
      /\ storedStale' \in BOOLEAN
  BY <1>1, StoredHomes DEF Stored!Put, StoredCopies
<1>3. storedFile' \in [Stored!Homes -> Stored!Config] /\ mem' \in [Stored!Process -> Stored!Config \cup {None}]
  BY <1>1, <1>2 DEF StoredCopies
<1>4. storedFile'["system"] = storedFile["system"] /\ mem'[Server] = mem[Server]
  BY <1>1, <1>2, StoredHomes DEF StoredCopies
<1>5. StoredKey' = StoredKey
  BY <1>4 DEF StoredKey
<1>6. \A h \in Stored!Homes : KeyAgrees(storedFile[h])'
  BY <1>2, <1>5 DEF KeyAgrees, StoredCopies
<1>7. \A d \in Client : mem'[d] # None => KeyAgrees(mem[d])'
  BY <1>2, <1>5, StoredHomes DEF KeyAgrees, StoredCopies
<1> QED
  BY <1>2, <1>3, <1>4, <1>5, <1>6, <1>7 DEF StoredCopies

\* Nothing is set at first.
LEMMA StoredInit == Stored!Init => StoredInv
<1> SUFFICES ASSUME Stored!Init PROVE StoredInv
  OBVIOUS
<1>1. Stored!Default \in Stored!Config /\ Stored!Default.confirmed = FALSE /\ Stored!Default.password = 0
  BY StoredBounds DEF Stored!Default, Stored!Config
<1>2. storedFile = [h \in Stored!Homes |-> Stored!Default] /\ mem = [p \in Stored!Process |-> None]
  BY DEF Stored!Init
<1>3. StoredCopies
  BY <1>1, <1>2, StoredHomes DEF StoredCopies, KeyAgrees, Stored!Init
<1>4. StoredTalk
  BY StoredBounds DEF Stored!Init, StoredTalk, StoredAsk, StoredSync
<1>5. \A c \in Client : sync[c].is = "off"
  BY DEF Stored!Init, Stored!Off
<1> QED
  BY <1>3, <1>4, <1>5 DEF StoredInv, StoredPairs

\* A setting of a copy is changed: the others stay.
LEMMA StoredChange ==
  ASSUME NEW cfg \in Stored!Config
  PROVE  /\ cfg.id \in 0 .. 1 + MaxIds /\ cfg.key \in 0 .. MaxKeys /\ cfg.confirmed \in BOOLEAN
         /\ cfg.password \in Texts \cup {0} /\ cfg.plain \in Texts \cup {0}
         /\ \A k \in 0 .. MaxKeys :
              LET new == [cfg EXCEPT !.key = k]
              IN  new \in Stored!Config /\ new.key = k /\ new.confirmed = cfg.confirmed
         /\ \A b \in BOOLEAN :
              LET new == [cfg EXCEPT !.confirmed = b]
              IN  new \in Stored!Config /\ new.key = cfg.key /\ new.confirmed = b
         /\ \A i \in 0 .. 1 + MaxIds :
              LET new == [cfg EXCEPT !.id = i]
              IN  new \in Stored!Config /\ new.key = cfg.key /\ new.confirmed = cfg.confirmed /\ new.id = i
         /\ \A f \in Stored!Text, v \in Texts \cup {0} :
              LET new == [cfg EXCEPT ![f] = v]
              IN  /\ new \in Stored!Config /\ new.key = cfg.key /\ new.confirmed = cfg.confirmed
                  /\ cfg[f] \in Texts \cup {0} /\ new[f] = v
<1>1. cfg.id \in 0 .. 1 + MaxIds /\ cfg.key \in 0 .. MaxKeys /\ cfg.confirmed \in BOOLEAN
      /\ cfg.password \in Texts \cup {0} /\ cfg.plain \in Texts \cup {0}
  BY DEF Stored!Config
<1>2. ASSUME NEW k \in 0 .. MaxKeys, NEW new, new = [cfg EXCEPT !.key = k]
      PROVE  new \in Stored!Config /\ new.key = k /\ new.confirmed = cfg.confirmed
  BY <1>2 DEF Stored!Config
<1>3. ASSUME NEW b \in BOOLEAN, NEW new, new = [cfg EXCEPT !.confirmed = b]
      PROVE  new \in Stored!Config /\ new.key = cfg.key /\ new.confirmed = b
  BY <1>3 DEF Stored!Config
<1>4. ASSUME NEW i \in 0 .. 1 + MaxIds, NEW new, new = [cfg EXCEPT !.id = i]
      PROVE  new \in Stored!Config /\ new.key = cfg.key /\ new.confirmed = cfg.confirmed /\ new.id = i
  BY <1>4 DEF Stored!Config
<1>5. ASSUME NEW f \in Stored!Text, NEW v \in Texts \cup {0}, NEW new, new = [cfg EXCEPT ![f] = v]
      PROVE  /\ new \in Stored!Config /\ new.key = cfg.key /\ new.confirmed = cfg.confirmed
             /\ cfg[f] \in Texts \cup {0} /\ new[f] = v
  <2>1. CASE f = "password"
    BY <1>5, <2>1 DEF Stored!Config
  <2>2. CASE f = "plain"
    BY <1>5, <2>2 DEF Stored!Config
  <2> QED
    BY <2>1, <2>2 DEF Stored!Text
<1> QED
  BY <1>1, <1>2, <1>3, <1>4, <1>5

\* get_id keeps the key.
LEMMA StoredWithId ==
  ASSUME NEW cfg \in Stored!Config
  PROVE  /\ Stored!WithId(cfg) \in Stored!Config /\ Stored!WithId(cfg).key = cfg.key
         /\ Stored!WithId(cfg).confirmed = cfg.confirmed
<1>1. 1 \in 0 .. 1 + MaxIds
  BY StoredBounds
<1> QED
  BY <1>1, StoredChange DEF Stored!WithId

\* A new id is not confirmed, whatever its key.
LEMMA StoredWithNewId ==
  ASSUME NEW cfg \in Stored!Config, NEW i \in 0 .. 1 + MaxIds
  PROVE  /\ Stored!WithNewId(cfg, i) \in Stored!Config /\ Stored!WithNewId(cfg, i).key = cfg.key
         /\ Stored!WithNewId(cfg, i).confirmed = FALSE
<1> DEFINE new == [cfg EXCEPT !.id = i, !.confirmed = FALSE]
<1>1. new \in Stored!Config /\ new.key = cfg.key /\ new.confirmed = FALSE
  BY DEF Stored!Config
<1> QED
  BY <1>1 DEF Stored!WithNewId

\* get_password keeps the key.
LEMMA StoredWithText ==
  ASSUME NEW cfg \in Stored!Config, NEW f, NEW v \in Texts
  PROVE  /\ Stored!WithText(cfg, f, v) \in Stored!Config /\ Stored!WithText(cfg, f, v).key = cfg.key
         /\ Stored!WithText(cfg, f, v).confirmed = cfg.confirmed
<1> DEFINE new == [cfg EXCEPT !["password"] = v]
<1>1. "password" \in Stored!Text /\ v \in Texts \cup {0}
  BY DEF Stored!Text
<1>2. new \in Stored!Config /\ new.key = cfg.key /\ new.confirmed = cfg.confirmed
  BY <1>1, StoredChange
<1>3. Stored!WithText(cfg, f, v) = new \/ Stored!WithText(cfg, f, v) = cfg
  BY DEF Stored!WithText
<1> QED
  BY <1>2, <1>3

\* What is put into a queue, and what is taken from it.
LEMMA Queues ==
  ASSUME NEW S, NEW s \in Seq(S)
  PROVE  /\ \A x \in S : Append(s, x) \in Seq(S)
         /\ s # <<>> => Head(s) \in S /\ Tail(s) \in Seq(S)
OBVIOUS

\* What is in a queue.
LEMMA ElementOfQueue ==
  ASSUME NEW S, NEW s \in Seq(S), NEW i \in DOMAIN s
  PROVE  s[i] \in S
OBVIOUS

\* The server's own threads keep it: a key is made when there is none.
LEMMA StoredServer ==
  ASSUME StoredInv, Stored!ServerStep
  PROVE  StoredInv' /\ (StoredKey # 0 => StoredKey' = StoredKey)
<1> USE DEF StoredInv
<1>0. Stored!Load(Server) = storedFile["system"] /\ storedFile["system"] \in Stored!Config
      /\ KeyAgrees(storedFile["system"])
  BY StoredLoad, StoredHomes DEF StoredCopies
<1> DEFINE cfg == storedFile["system"]
<1>1. CASE Stored!MakeKey
  <2> DEFINE new == [cfg EXCEPT !.key = made + 1]
  <2>1. new \in Stored!Config /\ new.key # 0 /\ StoredKey = 0
    <3>1. made + 1 \in 0 .. MaxKeys /\ made + 1 # 0
      BY <1>1, StoredBounds DEF Stored!MakeKey, StoredTalk
    <3>2. cfg.key = 0
      BY <1>0, <1>1 DEF Stored!MakeKey
    <3> QED
      BY <1>0, <3>1, <3>2, StoredChange DEF StoredKey
  <2>2. Stored!Put(Server, new) /\ UNCHANGED <<storedUp, calls, ask, sync, drawn, storedExits, sent>> /\ made' = made + 1 /\ made < MaxKeys
    BY <1>0, <1>1 DEF Stored!MakeKey
  <2>3. StoredCopies' /\ \A c \in Client : mem'[c] = mem[c]
    <3> HIDE DEF new
    <3> QED
      BY <2>1, <2>2, StoredServerPut
  <2>4. StoredTalk'
    <3>1. made' \in 0 .. MaxKeys
      BY <2>2, StoredBounds DEF StoredTalk
    <3> QED
      BY <2>2, <3>1 DEF StoredTalk
  <2> QED
    BY <2>1, <2>2, <2>3, <2>4 DEF StoredPairs
<1>2. CASE Stored!ConfirmKey
  <2> DEFINE new == [Stored!WithId(cfg) EXCEPT !.confirmed = TRUE]
  <2>1. new \in Stored!Config /\ new.key = cfg.key /\ cfg.key # 0
    <3>1. cfg.key # 0
      BY <1>0, <1>2 DEF Stored!ConfirmKey
    <3>2. Stored!WithId(cfg) \in Stored!Config /\ Stored!WithId(cfg).key = cfg.key
      BY <1>0, StoredWithId
    <3>3. new \in Stored!Config /\ new.key = Stored!WithId(cfg).key
      BY <3>2, StoredChange
    <3> QED
      BY <3>1, <3>2, <3>3
  <2>2. Stored!Put(Server, new) /\ UNCHANGED <<storedUp, calls, ask, sync, drawn, storedExits, sent, made>>
    BY <1>0, <1>2 DEF Stored!ConfirmKey, Stored!counts
  <2>3. StoredCopies' /\ StoredKey' = StoredKey /\ \A c \in Client : mem'[c] = mem[c]
    <3>1. StoredKey = new.key /\ StoredKey # 0
      BY <2>1 DEF StoredKey
    <3> HIDE DEF new
    <3> QED
      BY <2>1, <2>2, <3>1, StoredServerPut
  <2>4. StoredTalk'
    BY <2>2 DEF StoredTalk
  <2> QED
    BY <2>2, <2>3, <2>4 DEF StoredPairs
<1>3. CASE Stored!UpdateId
  <2> DEFINE new == Stored!WithNewId(cfg, 1 + drawn + 1)
  <2>1. new \in Stored!Config /\ new.key = cfg.key /\ new.confirmed = FALSE
    <3>1. 1 + drawn + 1 \in 0 .. 1 + MaxIds
      BY <1>3, StoredBounds DEF Stored!UpdateId, StoredTalk
    <3> QED
      BY <1>0, <3>1, StoredWithNewId
  <2>2. Stored!Put(Server, new) /\ UNCHANGED <<storedUp, calls, ask, sync, storedExits, sent, made>> /\ drawn' = drawn + 1 /\ drawn < MaxIds
    BY <1>0, <1>3 DEF Stored!UpdateId
  <2>3. StoredCopies' /\ (StoredKey # 0 => StoredKey' = StoredKey) /\ \A c \in Client : mem'[c] = mem[c]
    <3>1. StoredKey = new.key
      BY <2>1 DEF StoredKey
    <3> HIDE DEF new
    <3> QED
      BY <2>1, <2>2, <3>1, StoredServerPut
  <2>4. StoredTalk'
    <3>1. drawn' \in 0 .. MaxIds
      BY <2>2, StoredBounds DEF StoredTalk
    <3> QED
      BY <2>2, <3>1 DEF StoredTalk
  <2> QED
    BY <2>2, <2>3, <2>4 DEF StoredPairs
<1>4. CASE Stored!Exit
  <2>1. /\ storedUp' = FALSE /\ storedExits' = storedExits + 1 /\ storedExits < MaxExits
        /\ mem' = [mem EXCEPT ![Server] = None] /\ calls' = [c \in Client |-> <<>>]
        /\ sync' = [c \in Client |-> IF sync[c].is = "off" THEN Stored!Off ELSE [sync[c] EXCEPT !.linked = FALSE]]
        /\ UNCHANGED <<storedFile, ask, made, drawn, sent, kept, storedStale>>
    BY <1>4 DEF Stored!Exit
  <2>2. StoredCopies' /\ StoredKey' = StoredKey
    <3>1. mem' \in [Stored!Process -> Stored!Config \cup {None}] /\ mem'[Server] = None /\ \A c \in Client : mem'[c] = mem[c]
      BY <2>1, StoredHomes DEF StoredCopies
    <3> QED
      BY <2>1, <3>1 DEF StoredCopies, KeyAgrees, StoredKey
  <2>3. ASSUME NEW c \in Client PROVE sync'[c] \in StoredSync /\ sync'[c].is = sync[c].is
    <3>1. sync[c] \in StoredSync /\ sync'[c] = (IF sync[c].is = "off" THEN Stored!Off ELSE [sync[c] EXCEPT !.linked = FALSE])
      BY <2>1 DEF StoredTalk
    <3>2. CASE sync[c].is = "off"
      BY <3>1, <3>2 DEF StoredSync, Stored!Off
    <3>3. CASE sync[c].is # "off"
      <4>1. sync[c] \in [is : {"look", "wait", "pair", "done"}, n : 0 .. 3, linked : BOOLEAN]
        BY <3>1, <3>3 DEF StoredSync, Stored!Off
      <4>2. [sync[c] EXCEPT !.linked = FALSE] \in [is : {"look", "wait", "pair", "done"}, n : 0 .. 3, linked : BOOLEAN]
            /\ [sync[c] EXCEPT !.linked = FALSE].is = sync[c].is
        BY <4>1
      <4> QED
        BY <3>1, <3>3, <4>2 DEF StoredSync
    <3> QED
      BY <3>2, <3>3
  <2>4. StoredTalk'
    <3>1. calls' \in [Client -> Seq([field : Stored!Text, value : Texts])]
      BY <2>1
    <3>2. sync' \in [Client -> StoredSync]
      BY <2>1, <2>3
    <3>3. storedExits' \in 0 .. MaxExits
      BY <2>1, StoredBounds DEF StoredTalk
    <3> QED
      BY <2>1, <3>1, <3>2, <3>3 DEF StoredTalk
  <2>5. StoredPairs'
    BY <2>1, <2>2, <2>3, StoredHomes DEF StoredPairs, StoredCopies
  <2> QED
    BY <2>2, <2>4, <2>5
<1>5. CASE Stored!Start
  BY <1>5 DEF Stored!Start, Stored!counts, StoredCopies, StoredTalk, StoredPairs, KeyAgrees, StoredKey
<1> QED
  BY <1>1, <1>2, <1>3, <1>4, <1>5 DEF Stored!ServerStep

\* What a question asks for and what its answer is.
LEMMA StoredAsks ==
  ASSUME NEW a \in StoredAsk
  PROVE  /\ a.is = "asked" => a.field \in Stored!Text \cup {"id"}
         /\ a.is = "told" => \/ a.field \in Stored!Text /\ a.value \in Texts \cup {0}
                             \/ a.field = "id" /\ a.value \in 0 .. 1 + MaxIds
BY DEF StoredAsk, Stored!Unasked

\* The calls between a window and the server keep it.
LEMMA StoredClient ==
  ASSUME StoredInv, NEW c \in Client, Stored!IpcStep(c)
  PROVE  StoredInv' /\ (StoredKey # 0 => StoredKey' = StoredKey)
<1> USE DEF StoredInv
<1>0. /\ Stored!Load(Server) = storedFile["system"] /\ storedFile["system"] \in Stored!Config
      /\ KeyAgrees(storedFile["system"])
      /\ Stored!Load(c) \in Stored!Config /\ KeyAgrees(Stored!Load(c))
      /\ Stored!Unasked \in StoredAsk
  BY StoredLoad, StoredHomes DEF StoredCopies, StoredAsk
<1> DEFINE cfg == storedFile["system"]
           mine == Stored!Load(c)
<1>a. ASSUME NEW new \in Stored!Config, new.key = mine.key, new.confirmed \in {FALSE, mine.confirmed},
             Stored!Put(c, new), sync' = sync, StoredTalk'
      PROVE  StoredInv' /\ (StoredKey # 0 => StoredKey' = StoredKey)
  <2>1. KeyAgrees(new)
    BY <1>0, <1>a DEF KeyAgrees
  <2>2. StoredCopies' /\ StoredKey' = StoredKey /\ mem' = [mem EXCEPT ![c] = new]
    BY <1>a, <2>1, StoredClientPut
  <2>3. StoredPairs'
    <3>1. ASSUME NEW d \in Client, sync'[d].is = "pair"
          PROVE  mem'[d] # None /\ mem'[d].key = StoredKey' /\ StoredKey' # 0
      <4>1. mem[d] # None /\ mem[d].key = StoredKey /\ StoredKey # 0
        BY <1>a, <3>1 DEF StoredPairs
      <4>2. CASE d = c
        <5>1. mine = mem[c]
          BY <4>1, <4>2 DEF Stored!Load
        <5>2. mem'[c] = new /\ new # None
          BY <2>2, StoredHomes, StoredBounds DEF StoredCopies
        <5> QED
          BY <1>a, <2>2, <4>1, <4>2, <5>1, <5>2
      <4>3. CASE d # c
        BY <2>2, <4>1, <4>3, StoredHomes DEF StoredCopies
      <4> QED
        BY <4>2, <4>3
    <3> QED
      BY <3>1 DEF StoredPairs
  <2> QED
    BY <1>a, <2>2, <2>3
<1>b. ASSUME NEW new \in Stored!Config, new.key = cfg.key, new.confirmed = cfg.confirmed,
             Stored!Put(Server, new), sync' = sync, StoredTalk'
      PROVE  StoredInv' /\ (StoredKey # 0 => StoredKey' = StoredKey)
  <2>1. StoredKey = new.key /\ (new.confirmed => new.key # 0)
    BY <1>0, <1>b DEF KeyAgrees, StoredKey
  <2>2. StoredCopies' /\ (StoredKey # 0 => StoredKey' = StoredKey) /\ \A d \in Client : mem'[d] = mem[d]
    BY <1>b, <2>1, StoredServerPut
  <2> QED
    BY <1>b, <2>2 DEF StoredPairs
<1>1. CASE Stored!HandleSet(c)
  <2> DEFINE m == Head(calls[c])
             new == [cfg EXCEPT ![m.field] = m.value]
  <2>1. m \in [field : Stored!Text, value : Texts] /\ Tail(calls[c]) \in Seq([field : Stored!Text, value : Texts])
    <3>1. calls[c] \in Seq([field : Stored!Text, value : Texts]) /\ calls[c] # <<>>
      BY <1>1 DEF Stored!HandleSet, StoredTalk
    <3> QED
      BY <3>1, Queues
  <2>2. new \in Stored!Config /\ new.key = cfg.key /\ new.confirmed = cfg.confirmed
    BY <1>0, <2>1, StoredChange
  <2>3. Stored!Put(Server, new) /\ UNCHANGED <<storedUp, ask, sync, made, drawn, storedExits, sent>>
        /\ calls' = [calls EXCEPT ![c] = Tail(@)] /\ calls[c] # <<>>
    BY <1>0, <1>1 DEF Stored!HandleSet, Stored!counts
  <2>4. calls' \in [Client -> Seq([field : Stored!Text, value : Texts])]
    BY <2>1, <2>3 DEF StoredTalk
  <2>5. StoredTalk'
    BY <2>3, <2>4 DEF StoredTalk
  <2> HIDE DEF new
  <2> QED
    BY <1>b, <2>2, <2>3, <2>5
<1>2. ASSUME NEW v \in Texts, Stored!HandleGet(c, v)
      PROVE  StoredInv' /\ (StoredKey # 0 => StoredKey' = StoredKey)
  <2> DEFINE f == ask[c].field
             new == IF f = "id" THEN Stored!WithId(cfg) ELSE Stored!WithText(cfg, f, v)
  <2>1. ask[c] \in StoredAsk /\ f \in Stored!Text \cup {"id"}
    BY <1>2, StoredAsks DEF Stored!HandleGet, StoredTalk
  <2>2. /\ new \in Stored!Config /\ new.key = cfg.key /\ new.confirmed = cfg.confirmed
        /\ [is |-> "told", field |-> f, value |-> new[f]] \in StoredAsk
    <3>1. CASE f = "id"
      <4>1. new \in Stored!Config /\ new.key = cfg.key /\ new.confirmed = cfg.confirmed
        BY <1>0, <3>1, StoredWithId
      <4>2. new[f] \in 0 .. 1 + MaxIds
        BY <3>1, <4>1, StoredChange
      <4> QED
        BY <3>1, <4>1, <4>2 DEF StoredAsk
    <3>2. CASE f # "id"
      <4>1. f \in Stored!Text
        BY <2>1, <3>2
      <4>3. new \in Stored!Config /\ new.key = cfg.key /\ new.confirmed = cfg.confirmed
        BY <1>0, <3>2, StoredWithText
      <4>4. new[f] \in Texts \cup {0}
        BY <4>1, <4>3, StoredChange DEF Stored!Text
      <4> QED
        BY <4>1, <4>3, <4>4 DEF StoredAsk
    <3> QED
      BY <3>1, <3>2
  <2>3. /\ Stored!Put(Server, new) /\ UNCHANGED <<storedUp, calls, sync, made, drawn, storedExits, sent>>
        /\ ask' = [ask EXCEPT ![c] = [is |-> "told", field |-> f, value |-> new[f]]]
    BY <1>0, <1>2 DEF Stored!HandleGet, Stored!counts
  <2> HIDE DEF new, f
  <2>4. ask' \in [Client -> StoredAsk]
    BY <2>2, <2>3 DEF StoredTalk
  <2>5. StoredTalk'
    BY <2>3, <2>4 DEF StoredTalk
  <2> QED
    BY <1>b, <2>2, <2>3, <2>5
<1>3. ASSUME NEW f \in Stored!Text, NEW v \in Texts, Stored!SetText(c, f, v)
      PROVE  StoredInv' /\ (StoredKey # 0 => StoredKey' = StoredKey)
  <2> DEFINE new == [mine EXCEPT ![f] = v]
  <2>1. new \in Stored!Config /\ new.key = mine.key /\ new.confirmed = mine.confirmed
    BY <1>0, StoredChange
  <2>2. /\ Stored!Put(c, new) /\ UNCHANGED <<storedUp, ask, sync, made, drawn, storedExits>>
        /\ sent' = sent + 1 /\ sent < MaxCalls
        /\ calls' = IF storedUp THEN [calls EXCEPT ![c] = Append(@, [field |-> f, value |-> v])] ELSE calls
    BY <1>3 DEF Stored!SetText
  <2>3. calls' \in [Client -> Seq([field : Stored!Text, value : Texts])]
    <3>1. Append(calls[c], [field |-> f, value |-> v]) \in Seq([field : Stored!Text, value : Texts])
      <4>1. [field |-> f, value |-> v] \in [field : Stored!Text, value : Texts]
        OBVIOUS
      <4>2. calls[c] \in Seq([field : Stored!Text, value : Texts])
        BY DEF StoredTalk
      <4> HIDE DEF StoredInv
      <4> QED
        BY <4>1, <4>2, Queues
    <3> QED
      BY <2>2, <3>1 DEF StoredTalk
  <2>4. sent' \in 0 .. MaxCalls
    BY <2>2, StoredBounds DEF StoredTalk
  <2>5. StoredTalk'
    BY <2>2, <2>3, <2>4 DEF StoredTalk
  <2> HIDE DEF new, mine
  <2> QED
    BY <1>a, <2>1, <2>2, <2>5
<1>4. ASSUME NEW f \in Stored!Text \cup {"id"}, Stored!Ask(c, f)
      PROVE  StoredInv' /\ (StoredKey # 0 => StoredKey' = StoredKey)
  <2>1. /\ UNCHANGED <<storedFile, mem, storedUp, calls, sync, made, drawn, storedExits, sent, kept, storedStale>>
        /\ ask' = [ask EXCEPT ![c] = [is |-> "asked", field |-> f]]
    BY <1>4 DEF Stored!Ask, Stored!counts
  <2>2. [is |-> "asked", field |-> f] \in StoredAsk
    BY DEF StoredAsk
  <2>3. ask' \in [Client -> StoredAsk]
    BY <2>1, <2>2 DEF StoredTalk
  <2>4. StoredTalk'
    BY <2>1, <2>3 DEF StoredTalk
  <2> QED
    BY <2>1, <2>4 DEF StoredCopies, StoredPairs, KeyAgrees, StoredKey
<1>5. CASE Stored!Told(c)
  <2> DEFINE f == ask[c].field
             v == ask[c].value
             idd == Stored!WithId(mine)
             new == IF f # "id" THEN [mine EXCEPT ![f] = v] ELSE IF v = idd.id THEN idd ELSE Stored!WithNewId(idd, v)
  <2>1. \/ f \in Stored!Text /\ v \in Texts \cup {0}
        \/ f = "id" /\ v \in 0 .. 1 + MaxIds
    BY <1>5, StoredAsks DEF Stored!Told, StoredTalk
  <2>2. new \in Stored!Config /\ new.key = mine.key /\ new.confirmed \in {FALSE, mine.confirmed}
    <3>1. CASE f \in Stored!Text /\ v \in Texts \cup {0}
      <4>1. [mine EXCEPT ![f] = v] \in Stored!Config /\ [mine EXCEPT ![f] = v].key = mine.key
            /\ [mine EXCEPT ![f] = v].confirmed = mine.confirmed
        BY <1>0, <3>1, StoredChange
      <4>2. f # "id"
        BY <3>1 DEF Stored!Text
      <4> QED
        BY <4>1, <4>2
    <3>2. CASE f = "id" /\ v \in 0 .. 1 + MaxIds
      <4>1. idd \in Stored!Config /\ idd.key = mine.key /\ idd.confirmed = mine.confirmed
        BY <1>0, StoredWithId
      <4> HIDE DEF idd, mine
      <4>2. /\ Stored!WithNewId(idd, v) \in Stored!Config /\ Stored!WithNewId(idd, v).key = idd.key
            /\ Stored!WithNewId(idd, v).confirmed = FALSE
        BY <3>2, <4>1, StoredWithNewId
      <4> QED
        BY <3>2, <4>1, <4>2
    <3> QED
      BY <2>1, <3>1, <3>2
  <2>3. /\ Stored!Put(c, new) /\ UNCHANGED <<storedUp, calls, sync, made, drawn, storedExits, sent>>
        /\ ask' = [ask EXCEPT ![c] = Stored!Unasked]
    BY <1>5 DEF Stored!Told, Stored!counts
  <2>4. StoredTalk'
    BY <1>0, <2>3 DEF StoredTalk
  <2> HIDE DEF new, mine
  <2> QED
    BY <1>a, <2>2, <2>3, <2>4
<1>6. ASSUME NEW f \in Stored!Text \cup {"id"}, NEW v \in Texts, Stored!Untold(c, f, v)
      PROVE  StoredInv' /\ (StoredKey # 0 => StoredKey' = StoredKey)
  <2> DEFINE new == IF f = "id" THEN Stored!WithId(mine) ELSE Stored!WithText(mine, f, v)
  <2>1. new \in Stored!Config /\ new.key = mine.key /\ new.confirmed = mine.confirmed
    <3>1. CASE f = "id"
      BY <1>0, <3>1, StoredWithId
    <3>2. CASE f # "id"
      BY <1>0, <3>2, StoredWithText
    <3> QED
      BY <3>1, <3>2
  <2>2. /\ Stored!Put(c, new) /\ UNCHANGED <<storedUp, calls, sync, made, drawn, storedExits, sent>>
        /\ ask' = [ask EXCEPT ![c] = Stored!Unasked]
    BY <1>6 DEF Stored!Untold, Stored!counts
  <2>3. StoredTalk'
    BY <1>0, <2>2 DEF StoredTalk
  <2> HIDE DEF new, mine
  <2> QED
    BY <1>a, <2>1, <2>2, <2>3
<1>7. CASE Stored!Reopen(c)
  <2>1. /\ UNCHANGED <<storedFile, storedUp, calls, ask, made, drawn, storedExits, sent, kept, storedStale>>
        /\ mem' = [mem EXCEPT ![c] = None] /\ sync' = [sync EXCEPT ![c] = Stored!Off]
    BY <1>7 DEF Stored!Reopen, Stored!counts
  <2>2. mem' \in [Stored!Process -> Stored!Config \cup {None}] /\ mem'[Server] = mem[Server]
        /\ mem'[c] = None /\ \A d \in Client \ {c} : mem'[d] = mem[d]
    BY <2>1, StoredHomes DEF StoredCopies
  <2>3. StoredCopies'
    BY <2>1, <2>2 DEF StoredCopies, KeyAgrees, StoredKey
  <2>4. Stored!Off \in StoredSync /\ Stored!Off.is = "off"
    BY DEF StoredSync, Stored!Off
  <2>5. StoredTalk'
    BY <2>1, <2>4 DEF StoredTalk
  <2>6. StoredPairs'
    BY <2>1, <2>2, <2>4 DEF StoredPairs, StoredKey, StoredTalk
  <2> QED
    BY <2>1, <2>3, <2>5, <2>6 DEF StoredKey
<1> QED
  BY <1>1, <1>2, <1>3, <1>4, <1>5, <1>6, <1>7 DEF Stored!IpcStep

\* The synchronisation of the pair keeps it: it confirms what it was told.
LEMMA StoredSyncs ==
  ASSUME StoredInv, NEW c \in Client, Stored!SyncStep(c)
  PROVE  StoredInv' /\ StoredKey' = StoredKey
<1> USE DEF StoredInv
<1> DEFINE mine == Stored!Load(c)
           At == [is : {"look", "wait", "pair", "done"}, n : 0 .. 3, linked : BOOLEAN]
<1>0. /\ Stored!Load(Server) = storedFile["system"] /\ storedFile["system"] \in Stored!Config
      /\ KeyAgrees(storedFile["system"])
      /\ mine \in Stored!Config /\ KeyAgrees(mine)
      /\ mine = (IF mem[c] = None THEN storedFile["user"] ELSE mem[c])
  BY StoredLoad, StoredHomes DEF StoredCopies
<1>1. CASE Stored!SyncStart(c)
  <2>1. /\ UNCHANGED <<storedFile, mem, storedUp, calls, ask, made, drawn, storedExits, sent, kept, storedStale>>
        /\ sync' = [sync EXCEPT ![c] = [is |-> "look", n |-> 0, linked |-> TRUE]]
    BY <1>1 DEF Stored!SyncStart, Stored!counts
  <2>2. [is |-> "look", n |-> 0, linked |-> TRUE] \in StoredSync
    BY DEF StoredSync
  <2> QED
    BY <2>1, <2>2 DEF StoredCopies, StoredTalk, StoredPairs, KeyAgrees, StoredKey
<1>2. CASE Stored!SyncLook(c)
  <2> DEFINE next == IF ~mine.confirmed THEN [sync[c] EXCEPT !.is = "wait"]
                     ELSE IF sync[c].n = 3 THEN [sync[c] EXCEPT !.is = "done"] ELSE [sync[c] EXCEPT !.n = sync[c].n + 1]
  <2>1. /\ UNCHANGED <<storedFile, storedUp, calls, ask, made, drawn, storedExits, sent, kept, storedStale>>
        /\ mem' = [mem EXCEPT ![c] = mine] /\ sync' = [sync EXCEPT ![c] = next] /\ sync[c].is = "look"
    <3>1. sync' = [sync EXCEPT ![c] = next]
      BY <1>2 DEF Stored!SyncLook
    <3> QED
      BY <1>2, <3>1 DEF Stored!SyncLook, Stored!counts
  <2>2. next \in StoredSync /\ next.is # "pair"
    <3>1. sync[c] \in At
      BY <2>1 DEF StoredTalk, StoredSync, Stored!Off
    <3>2. [sync[c] EXCEPT !.is = "wait"] \in At /\ [sync[c] EXCEPT !.is = "done"] \in At
          /\ [sync[c] EXCEPT !.is = "wait"].is = "wait" /\ [sync[c] EXCEPT !.is = "done"].is = "done"
      BY <3>1
    <3>3. sync[c].n # 3 => [sync[c] EXCEPT !.n = sync[c].n + 1] \in At /\ [sync[c] EXCEPT !.n = sync[c].n + 1].is = "look"
      BY <2>1, <3>1
    <3> QED
      BY <3>2, <3>3 DEF StoredSync
  <2> HIDE DEF next, mine
  <2>3. /\ mem' \in [Stored!Process -> Stored!Config \cup {None}] /\ mem'[Server] = mem[Server]
        /\ mem'[c] = mine /\ \A d \in Client \ {c} : mem'[d] = mem[d]
    BY <1>0, <2>1, StoredHomes DEF StoredCopies
  <2>4. StoredCopies' /\ StoredKey' = StoredKey
    BY <1>0, <2>1, <2>3 DEF StoredCopies, KeyAgrees, StoredKey
  <2>5. StoredTalk'
    BY <2>1, <2>2 DEF StoredTalk
  <2>6. StoredPairs'
    BY <2>1, <2>2, <2>3, <2>4 DEF StoredPairs, StoredTalk
  <2> QED
    BY <2>4, <2>5, <2>6
<1>3. CASE Stored!SyncTold(c)
  <2> DEFINE k == storedFile["system"].key
             new == [mine EXCEPT !.key = k]
  <2>1. new \in Stored!Config /\ new.key = k /\ new.confirmed = mine.confirmed /\ k = StoredKey
    BY <1>0, StoredChange DEF StoredKey
  <2>2. KeyAgrees(new) /\ k # 0
    BY <1>0, <1>3, <2>1 DEF KeyAgrees, Stored!SyncTold
  <2>3. /\ Stored!Put(c, new) /\ UNCHANGED <<storedUp, calls, ask, made, drawn, storedExits, sent>>
        /\ sync' = [sync EXCEPT ![c] = [sync[c] EXCEPT !.is = "pair"]] /\ sync[c].is = "wait"
    BY <1>0, <1>3 DEF Stored!SyncTold, Stored!counts, StoredTalk
  <2>4. [sync[c] EXCEPT !.is = "pair"] \in StoredSync
    <3>1. sync[c] \in At
      BY <2>3 DEF StoredTalk, StoredSync, Stored!Off
    <3> QED
      BY <3>1 DEF StoredSync
  <2> HIDE DEF new, mine, k
  <2>5. StoredCopies' /\ StoredKey' = StoredKey /\ mem' = [mem EXCEPT ![c] = new]
    BY <2>1, <2>2, <2>3, StoredClientPut
  <2>6. StoredTalk'
    BY <2>3, <2>4 DEF StoredTalk
  <2>7. mem'[c] = new /\ new # None /\ \A d \in Client \ {c} : mem'[d] = mem[d]
    BY <2>1, <2>5, StoredHomes, StoredBounds DEF StoredCopies
  <2>8. StoredPairs'
    BY <2>1, <2>2, <2>3, <2>5, <2>7 DEF StoredPairs, StoredTalk
  <2> QED
    BY <2>5, <2>6, <2>8
<1>4. CASE Stored!SyncConfirmed(c)
  <2> DEFINE new == [mine EXCEPT !.confirmed = TRUE]
  <2>1. new \in Stored!Config /\ new.key = mine.key
    BY <1>0, StoredChange
  <2>2. KeyAgrees(new)
    <3>1. mem[c] # None /\ mem[c].key = StoredKey /\ StoredKey # 0
      BY <1>4 DEF Stored!SyncConfirmed, StoredPairs
    <3> QED
      BY <1>0, <2>1, <3>1 DEF KeyAgrees
  <2>3. /\ Stored!Put(c, new) /\ UNCHANGED <<storedUp, calls, ask, made, drawn, storedExits, sent>>
        /\ sync' = [sync EXCEPT ![c] = [sync[c] EXCEPT !.is = "done"]] /\ sync[c].is = "pair"
    BY <1>4 DEF Stored!SyncConfirmed, Stored!counts, StoredTalk
  <2>4. [sync[c] EXCEPT !.is = "done"] \in StoredSync /\ [sync[c] EXCEPT !.is = "done"].is = "done"
    <3>1. sync[c] \in At
      BY <2>3 DEF StoredTalk, StoredSync, Stored!Off
    <3> QED
      BY <3>1 DEF StoredSync
  <2> HIDE DEF new, mine
  <2>5. StoredCopies' /\ StoredKey' = StoredKey /\ mem' = [mem EXCEPT ![c] = new]
    BY <2>1, <2>2, <2>3, StoredClientPut
  <2>6. StoredTalk'
    BY <2>3, <2>4 DEF StoredTalk
  <2>7. \A d \in Client \ {c} : mem'[d] = mem[d]
    BY <2>5, StoredHomes DEF StoredCopies
  <2>8. StoredPairs'
    BY <2>3, <2>4, <2>5, <2>7 DEF StoredPairs, StoredTalk
  <2> QED
    BY <2>5, <2>6, <2>8
<1>5. CASE Stored!SyncUntold(c)
  <2>1. /\ UNCHANGED <<storedFile, mem, storedUp, calls, ask, made, drawn, storedExits, sent, kept, storedStale>>
        /\ sync' = [sync EXCEPT ![c] = [sync[c] EXCEPT !.is = "look"]] /\ sync[c].is = "wait"
    BY <1>5 DEF Stored!SyncUntold, Stored!counts, StoredTalk
  <2>2. [sync[c] EXCEPT !.is = "look"] \in StoredSync /\ [sync[c] EXCEPT !.is = "look"].is = "look"
    <3>1. sync[c] \in At
      BY <2>1 DEF StoredTalk, StoredSync, Stored!Off
    <3> QED
      BY <3>1 DEF StoredSync
  <2>3. StoredTalk' /\ StoredPairs'
    BY <2>1, <2>2 DEF StoredTalk, StoredPairs, StoredKey
  <2> QED
    BY <2>1, <2>3 DEF StoredCopies, KeyAgrees, StoredKey
<1> QED
  BY <1>1, <1>2, <1>3, <1>4, <1>5 DEF Stored!SyncStep

\* Every step keeps it, and the key.
LEMMA StoredStep ==
  ASSUME StoredInv, [Stored!Next]_storedVars
  PROVE  StoredInv' /\ Stored!KeyStays
<1>1. StoredInv' /\ (StoredKey # 0 => StoredKey' = StoredKey)
  <2>1. CASE UNCHANGED storedVars
    BY <2>1 DEF storedVars, StoredInv, StoredCopies, StoredTalk, StoredPairs, KeyAgrees, StoredKey
  <2> QED
    BY <2>1, StoredServer, StoredClient, StoredSyncs DEF Stored!Next
<1> QED
  BY <1>1, StoredHomes DEF Stored!KeyStays, StoredKey

\* What the runs check of the settings follows.
LEMMA StoredHolds ==
  ASSUME StoredInv
  PROVE  Stored!TypeOK /\ Stored!PasswordIsKept /\ Stored!ConfirmedIsServers
<1> USE DEF StoredInv
<1>1. Stored!PasswordIsKept
  BY StoredHomes DEF Stored!PasswordIsKept, StoredCopies
<1>2. Stored!ConfirmedIsServers
  BY StoredHomes DEF Stored!ConfirmedIsServers, StoredCopies, KeyAgrees, StoredKey
<1>3. ASSUME NEW c \in Client
      PROVE  /\ \A i \in DOMAIN calls[c] : calls[c][i] \in [field : Stored!Text, value : Texts]
             /\ ask[c].is \in {"none", "asked", "told"}
             /\ sync[c].is \in {"off", "look", "wait", "pair", "done"}
  <2>1. calls[c] \in Seq([field : Stored!Text, value : Texts])
    BY DEF StoredTalk
  <2>2. ask[c] \in StoredAsk /\ sync[c] \in StoredSync
    BY DEF StoredTalk
  <2> QED
    <3>1. \A i \in DOMAIN calls[c] : calls[c][i] \in [field : Stored!Text, value : Texts]
      BY <2>1, ElementOfQueue
    <3>2. ask[c].is \in {"none", "asked", "told"}
      BY <2>2 DEF StoredAsk, Stored!Unasked
    <3>3. sync[c].is \in {"off", "look", "wait", "pair", "done"}
      BY <2>2 DEF StoredSync, Stored!Off
    <3> QED
      BY <3>1, <3>2, <3>3
<1> QED
  BY <1>1, <1>2, <1>3 DEF Stored!TypeOK, StoredCopies, StoredTalk

-----------------------------------------------------------------------------
(* The settings on one file (Together). *)

\* On one file a password is lost only when a copy was stored that had missed what another stored.
TogetherInv ==
  /\ "system" \in DOMAIN storedFile /\ storedStale \in BOOLEAN
  /\ Together!KeptUnlessStale

\* There is one file.
LEMMA TogetherHome ==
  /\ Together!Process = Client \cup {Server}
  /\ \A p \in Together!Process : [q \in Client \cup {Server} |-> "system"][p] = "system"
BY DEF Together!Process

\* Whoever changes a setting stores it there, over what it has missed or over what it knows.
LEMMA TogetherPut ==
  ASSUME TogetherInv, NEW p \in Client \cup {Server}, NEW cfg, Together!Put(p, cfg)
  PROVE  TogetherInv'
<1> DEFINE old == Together!Load(p)
<1>1. /\ storedFile' = [storedFile EXCEPT !["system"] = IF cfg = old THEN storedFile["system"] ELSE cfg]
      /\ kept' = IF cfg.password # old.password THEN cfg.password ELSE kept
      /\ storedStale' = (storedStale \/ (cfg # old /\ old # storedFile["system"]))
  BY TogetherHome DEF Together!Put
<1> HIDE DEF old
<1>2. DOMAIN storedFile' = DOMAIN storedFile
  BY <1>1
<1>3. storedFile'["system"] = IF cfg = old THEN storedFile["system"] ELSE cfg
  BY <1>1 DEF TogetherInv
<1>4. CASE cfg = old
  BY <1>1, <1>2, <1>3, <1>4, TogetherHome DEF TogetherInv, Together!KeptUnlessStale, Together!PasswordIsKept
<1>5. CASE cfg # old /\ old # storedFile["system"]
  BY <1>1, <1>2, <1>5 DEF TogetherInv, Together!KeptUnlessStale, Together!PasswordIsKept
<1>6. CASE cfg # old /\ old = storedFile["system"]
  BY <1>1, <1>2, <1>3, <1>6, TogetherHome DEF TogetherInv, Together!KeptUnlessStale, Together!PasswordIsKept
<1> QED
  BY <1>4, <1>5, <1>6

\* Nothing is set at first.
LEMMA TogetherInit == Together!Init => TogetherInv
<1> SUFFICES ASSUME Together!Init PROVE TogetherInv
  OBVIOUS
<1>1. "system" \in Together!Homes /\ Server \in Together!Process
  BY TogetherHome DEF Together!Homes
<1>2. storedFile["system"] = Together!Default
  BY <1>1 DEF Together!Init
<1> QED
  BY <1>1, <1>2, TogetherHome DEF Together!Init, TogetherInv, Together!KeptUnlessStale, Together!PasswordIsKept,
    Together!Default

\* Every step of every process is such a change, or does not touch the file.
LEMMA TogetherStep ==
  ASSUME TogetherInv, [Together!Next]_storedVars
  PROVE  TogetherInv'
<1>1. ASSUME UNCHANGED <<storedFile, kept, storedStale>> PROVE TogetherInv'
  BY <1>1 DEF TogetherInv, Together!KeptUnlessStale, Together!PasswordIsKept
<1>2. CASE Together!ServerStep
  BY <1>1, <1>2, TogetherPut DEF Together!ServerStep, Together!MakeKey, Together!ConfirmKey, Together!UpdateId,
    Together!Exit, Together!Start
<1>3. ASSUME NEW c \in Client, Together!IpcStep(c) PROVE TogetherInv'
  BY <1>1, <1>3, TogetherPut DEF Together!IpcStep, Together!HandleSet, Together!HandleGet, Together!SetText,
    Together!Ask, Together!Told, Together!Untold, Together!Reopen
<1>4. ASSUME NEW c \in Client, Together!SyncStep(c) PROVE TogetherInv'
  BY <1>1, <1>4, TogetherPut DEF Together!SyncStep, Together!SyncStart, Together!SyncLook, Together!SyncTold,
    Together!SyncConfirmed, Together!SyncUntold
<1>5. CASE UNCHANGED storedVars
  BY <1>1, <1>5 DEF storedVars
<1> QED
  BY <1>2, <1>3, <1>4, <1>5 DEF Together!Next

-----------------------------------------------------------------------------
(* The options (Options). *)

\* What a setter may be at ...
OptionsSet ==
  {Options!Idle} \cup [at : {"ask", "asked"}, map : SUBSET Options!Option, key : Key, on : BOOLEAN]
    \cup [at : {"sent", "done"}, map : SUBSET Options!Option, n : Nat]
\* ... what it sends ...
OptionsChange == [by : Options!Setter, map : SUBSET Options!Option, key : Key, on : BOOLEAN, n : Nat]
\* ... and what a window's thread is at.
OptionsPoll == {Options!Off} \cup [at : {"linked"}] \cup [at : {"told"}, map : SUBSET Options!Option]

\* The types of what is under way.
OptionsTalk ==
  /\ optionsUp \in BOOLEAN
  /\ set \in [Options!Setter -> OptionsSet]
  /\ inbox \subseteq OptionsChange
  /\ own \in [Options!Setter -> SUBSET Options!Option]
  /\ cache \in [Window -> SUBSET Options!Option] /\ poll \in [Window -> OptionsPoll]
  /\ status \in [Window -> BOOLEAN]
  /\ sets \in 0 .. MaxSets /\ optionsExits \in 0 .. MaxExits

\* Why the serial is that of the list: who is to store it has stored the list, and only a map that undoes
\* it takes it away.
OptionsKept ==
  /\ options \subseteq Options!Option /\ want \subseteq Options!Option
  /\ serial \in BOOLEAN /\ reverted \in BOOLEAN
  /\ upd \in [Updater -> {"idle", "list", "serial"}]
  /\ \A t \in Updater : upd[t] = "serial" => Options!List \in options \/ reverted
  /\ Options!SerialHasList /\ Options!OptionsAreWanted

\* All of it.
OptionsInv == OptionsTalk /\ OptionsKept

\* What the constants of the options are.
LEMMA OptionsBounds ==
  Window \cap Shell = {} /\ Options!List \notin Key /\ MaxSets \in Nat /\ MaxExits \in Nat
BY PartsAssumption DEF Options!SharedOptionsAssumption

\* No option is on at first.
LEMMA OptionsInit == Options!Init => OptionsInv
<1> SUFFICES ASSUME Options!Init PROVE OptionsInv
  OBVIOUS
<1>1. OptionsTalk
  BY OptionsBounds DEF Options!Init, OptionsTalk, OptionsSet, OptionsPoll
<1> QED
  BY <1>1 DEF Options!Init, OptionsInv, OptionsKept, Options!SerialHasList, Options!OptionsAreWanted

\* What a setter sends is a change of an option.
LEMMA OptionsSends ==
  ASSUME OptionsInv, NEW c \in Options!Setter, NEW k \in Key, NEW on \in BOOLEAN, NEW m \in SUBSET Options!Option,
         sets' \in Nat, Options!Sends(c, k, on, m)
  PROVE  set' \in [Options!Setter -> OptionsSet] /\ inbox' \subseteq OptionsChange
<1>1. [at |-> IF optionsUp THEN "sent" ELSE "done", map |-> m, n |-> sets'] \in OptionsSet
  BY DEF OptionsSet
<1>2. [by |-> c, map |-> m, key |-> k, on |-> on, n |-> sets'] \in OptionsChange
  BY DEF OptionsChange
<1> QED
  BY <1>1, <1>2 DEF Options!Sends, OptionsInv, OptionsTalk

\* A change of a user's option leaves the list of servers.
LEMMA OptionsWith ==
  ASSUME NEW m \in SUBSET Options!Option, NEW k \in Key, NEW on
  PROVE  Options!With(m, k, on) \in SUBSET Options!Option /\ (Options!List \in m => Options!List \in Options!With(m, k, on))
BY OptionsBounds DEF Options!With, Options!Option

\* Every step keeps it: a map that undoes more than its own change is remembered as such.
LEMMA OptionsStep ==
  ASSUME OptionsInv, [Options!Next]_optionsVars
  PROVE  OptionsInv'
<1> USE DEF OptionsInv
<1>a. ASSUME UNCHANGED <<options, serial, upd, want, reverted>> PROVE OptionsKept'
  BY <1>a DEF OptionsKept, Options!SerialHasList, Options!OptionsAreWanted
<1>1. ASSUME NEW t \in Updater, Options!Updated(t) PROVE OptionsInv'
  BY <1>1 DEF Options!Updated, Options!window, Options!bounds, OptionsTalk, OptionsKept, Options!SerialHasList,
    Options!OptionsAreWanted
<1>2. ASSUME NEW t \in Updater, Options!SetList(t) PROVE OptionsInv'
  <2>1. OptionsTalk'
    BY <1>2 DEF Options!SetList, Options!window, Options!bounds, OptionsTalk
  <2>2. /\ options' = options \cup {Options!List} /\ want' = want \cup {Options!List}
        /\ upd' = [upd EXCEPT ![t] = "serial"] /\ serial' = serial /\ reverted' = reverted
    BY <1>2 DEF Options!SetList
  <2>3. OptionsKept'
    BY <2>2 DEF OptionsKept, Options!SerialHasList, Options!OptionsAreWanted, Options!Option
  <2> QED
    BY <2>1, <2>3
<1>3. ASSUME NEW t \in Updater, Options!SetSerial(t) PROVE OptionsInv'
  BY <1>3 DEF Options!SetSerial, Options!window, Options!bounds, OptionsTalk, OptionsKept, Options!SerialHasList,
    Options!OptionsAreWanted
<1>4. CASE Options!Exit
  <2>1. optionsExits' \in 0 .. MaxExits
    BY <1>4, OptionsBounds DEF Options!Exit, OptionsTalk
  <2>2. OptionsTalk'
    BY <1>4, <2>1 DEF Options!Exit, Options!window, OptionsTalk
  <2>3. OptionsKept'
    BY <1>4 DEF Options!Exit, OptionsKept, Options!SerialHasList, Options!OptionsAreWanted
  <2> QED
    BY <2>2, <2>3
<1>5. CASE Options!Start
  BY <1>5 DEF Options!Start, Options!window, Options!bounds, OptionsTalk, OptionsKept, Options!SerialHasList,
    Options!OptionsAreWanted
<1>6. ASSUME NEW w \in Window, NEW k \in Key, NEW on \in BOOLEAN, Options!SetOption(w, k, on) PROVE OptionsInv'
  <2> DEFINE m == Options!With(cache[w], k, on)
  <2>1. w \in Options!Setter /\ m \in SUBSET Options!Option
    BY OptionsWith DEF Options!Setter, OptionsTalk
  <2>2. /\ sets' = sets + 1 /\ sets < MaxSets /\ cache' = [cache EXCEPT ![w] = m]
        /\ Options!Sends(w, k, on, m)
        /\ UNCHANGED <<options, serial, optionsUp, upd, own, poll, status, optionsExits, want, reverted>>
    BY <1>6 DEF Options!SetOption, Options!server
  <2> HIDE DEF m
  <2>3. sets' \in Nat /\ sets' \in 0 .. MaxSets
    BY <2>2, OptionsBounds DEF OptionsTalk
  <2>4. set' \in [Options!Setter -> OptionsSet] /\ inbox' \subseteq OptionsChange
    BY <2>1, <2>2, <2>3, OptionsSends
  <2>5. OptionsTalk'
    BY <2>1, <2>2, <2>3, <2>4 DEF OptionsTalk
  <2> QED
    BY <1>a, <2>2, <2>5
<1>7. ASSUME NEW c \in Shell, NEW k \in Key, NEW on \in BOOLEAN, Options!AskOptions(c, k, on) PROVE OptionsInv'
  <2>1. /\ sets' = sets + 1 /\ sets < MaxSets
        /\ set' = [set EXCEPT ![c] = [at |-> IF optionsUp THEN "ask" ELSE "asked", map |-> own[c], key |-> k, on |-> on]]
        /\ UNCHANGED <<options, serial, optionsUp, upd, inbox, own, cache, poll, status, optionsExits, want, reverted>>
    BY <1>7 DEF Options!AskOptions, Options!server, Options!window
  <2>2. [at |-> IF optionsUp THEN "ask" ELSE "asked", map |-> own[c], key |-> k, on |-> on] \in OptionsSet
    <3>1. own[c] \in SUBSET Options!Option
      BY DEF OptionsTalk, Options!Setter
    <3> QED
      BY <3>1 DEF OptionsSet
  <2>3. set' \in [Options!Setter -> OptionsSet]
    BY <2>1, <2>2 DEF OptionsTalk
  <2>4. sets' \in 0 .. MaxSets
    BY <2>1, OptionsBounds DEF OptionsTalk
  <2>5. OptionsTalk'
    BY <2>1, <2>3, <2>4 DEF OptionsTalk
  <2> QED
    BY <1>a, <2>1, <2>5
<1>8. ASSUME NEW c \in Options!Setter, Options!GetOptions(c) PROVE OptionsInv'
  <2>1. /\ set[c].at = "ask" /\ set' = [set EXCEPT ![c] = [set[c] EXCEPT !.at = "asked", !.map = options]]
        /\ own' = [own EXCEPT ![c] = options]
        /\ UNCHANGED <<options, serial, optionsUp, upd, inbox, cache, poll, status, sets, optionsExits, want, reverted>>
    BY <1>8 DEF Options!GetOptions, Options!server, Options!window, Options!bounds
  <2>2. set[c] \in [at : {"ask", "asked"}, map : SUBSET Options!Option, key : Key, on : BOOLEAN]
    BY <2>1 DEF OptionsTalk, OptionsSet, Options!Idle
  <2>3. options \in SUBSET Options!Option
    BY DEF OptionsKept
  <2>4. [set[c] EXCEPT !.at = "asked", !.map = options] \in OptionsSet
    BY <2>2, <2>3 DEF OptionsSet
  <2>5. OptionsTalk'
    BY <2>1, <2>3, <2>4 DEF OptionsTalk
  <2> QED
    BY <1>a, <2>1, <2>5
<1>9. ASSUME NEW c \in Options!Setter, Options!NoOptions(c) PROVE OptionsInv'
  <2>1. /\ set[c].at = "ask" /\ set' = [set EXCEPT ![c] = [set[c] EXCEPT !.at = "asked"]]
        /\ UNCHANGED <<options, serial, optionsUp, upd, inbox, own, cache, poll, status, sets, optionsExits, want, reverted>>
    BY <1>9 DEF Options!NoOptions, Options!server, Options!window, Options!bounds, OptionsTalk
  <2>2. set[c] \in [at : {"ask", "asked"}, map : SUBSET Options!Option, key : Key, on : BOOLEAN]
    BY <2>1 DEF OptionsTalk, OptionsSet, Options!Idle
  <2>3. [set[c] EXCEPT !.at = "asked"] \in OptionsSet
    BY <2>2 DEF OptionsSet
  <2>4. OptionsTalk'
    BY <2>1, <2>3 DEF OptionsTalk
  <2> QED
    BY <1>a, <2>1, <2>4
<1>10. ASSUME NEW c \in Options!Setter, Options!SetAsked(c) PROVE OptionsInv'
  <2> DEFINE m == Options!With(set[c].map, set[c].key, set[c].on)
  <2>1. set[c] \in [at : {"ask", "asked"}, map : SUBSET Options!Option, key : Key, on : BOOLEAN]
    BY <1>10 DEF Options!SetAsked, OptionsTalk, OptionsSet, Options!Idle
  <2>2. m \in SUBSET Options!Option /\ set[c].key \in Key /\ set[c].on \in BOOLEAN
    BY <2>1, OptionsWith
  <2>3. /\ Options!Sends(c, set[c].key, set[c].on, m)
        /\ UNCHANGED <<options, serial, optionsUp, upd, own, cache, poll, status, sets, optionsExits, want, reverted>>
    BY <1>10 DEF Options!SetAsked, Options!server, Options!window, Options!bounds
  <2> HIDE DEF m
  <2>4. sets' \in Nat
    BY <2>3, OptionsBounds DEF OptionsTalk
  <2>5. set' \in [Options!Setter -> OptionsSet] /\ inbox' \subseteq OptionsChange
    BY <2>2, <2>3, <2>4, OptionsSends
  <2>6. OptionsTalk'
    BY <2>3, <2>5 DEF OptionsTalk
  <2> QED
    BY <1>a, <2>3, <2>6
<1>11. ASSUME NEW m \in inbox, Options!HandleOptions(m) PROVE OptionsInv'
  <2>1. /\ options' = m.map /\ want' = Options!With(want, m.key, m.on)
        /\ reverted' = (reverted \/ Options!With(options, m.key, m.on) # m.map)
        /\ inbox' = inbox \ {m}
        /\ set' = IF set[m.by].at = "sent" /\ set[m.by].n = m.n THEN [set EXCEPT ![m.by] = [set[m.by] EXCEPT !.at = "done"]] ELSE set
        /\ UNCHANGED <<serial, optionsUp, upd, own, cache, poll, status, sets, optionsExits>>
    BY <1>11 DEF Options!HandleOptions, Options!window, Options!bounds
  <2>2. m.by \in Options!Setter /\ m.map \in SUBSET Options!Option /\ m.key \in Key
    BY DEF OptionsTalk, OptionsChange
  <2>3. set' \in [Options!Setter -> OptionsSet]
    <3>1. CASE set[m.by].at = "sent" /\ set[m.by].n = m.n
      <4>1. set[m.by] \in [at : {"sent", "done"}, map : SUBSET Options!Option, n : Nat]
        BY <2>2, <3>1 DEF OptionsTalk, OptionsSet, Options!Idle
      <4>2. [set[m.by] EXCEPT !.at = "done"] \in OptionsSet
        BY <4>1 DEF OptionsSet
      <4> QED
        BY <2>1, <2>2, <3>1, <4>2 DEF OptionsTalk
    <3>2. CASE ~(set[m.by].at = "sent" /\ set[m.by].n = m.n)
      BY <2>1, <3>2 DEF OptionsTalk
    <3> QED
      BY <3>1, <3>2
  <2>4. OptionsTalk'
    BY <2>1, <2>3 DEF OptionsTalk
  <2>5. /\ options' \subseteq Options!Option /\ want' \subseteq Options!Option
        /\ Options!List \in options /\ ~reverted' => Options!List \in options'
    <3>1. options \in SUBSET Options!Option /\ want \in SUBSET Options!Option
      BY DEF OptionsKept
    <3>2. /\ Options!With(want, m.key, m.on) \in SUBSET Options!Option
          /\ Options!List \in options => Options!List \in Options!With(options, m.key, m.on)
      BY <2>2, <3>1, OptionsWith
    <3> QED
      BY <2>1, <2>2, <3>2
  <2>6. reverted' \in BOOLEAN /\ (reverted => reverted')
    BY <2>1 DEF OptionsKept
  <2>7. options' = want' \/ reverted'
    BY <2>1 DEF OptionsKept, Options!OptionsAreWanted
  <2> QED
    BY <2>1, <2>4, <2>5, <2>6, <2>7 DEF OptionsKept, Options!SerialHasList, Options!OptionsAreWanted
<1>12. ASSUME NEW c \in Options!Setter, Options!SetDone(c) PROVE OptionsInv'
  <2>1. /\ set[c].at \in {"sent", "done"} /\ set' = [set EXCEPT ![c] = Options!Idle]
        /\ own' = [own EXCEPT ![c] = set[c].map]
        /\ UNCHANGED <<options, serial, optionsUp, upd, inbox, cache, poll, status, sets, optionsExits, want, reverted>>
    BY <1>12 DEF Options!SetDone, Options!server, Options!window, Options!bounds
  <2>2. set[c].map \in SUBSET Options!Option
    BY <2>1 DEF OptionsTalk, OptionsSet, Options!Idle
  <2>3. Options!Idle \in OptionsSet
    BY DEF OptionsSet
  <2>4. OptionsTalk'
    BY <2>1, <2>2, <2>3 DEF OptionsTalk
  <2> QED
    BY <1>a, <2>1, <2>4
<1>13. ASSUME NEW w \in Window, Options!PollStep(w) PROVE OptionsInv'
  <2>1. UNCHANGED <<options, serial, optionsUp, upd, set, inbox, own, sets, optionsExits, want, reverted>>
    BY <1>13 DEF Options!PollStep, Options!PollLink, Options!PollAsk, Options!PollTake, Options!PollLost,
      Options!server, Options!bounds
  <2>2. options \in SUBSET Options!Option /\ poll[w] \in OptionsPoll
    BY DEF OptionsTalk, OptionsKept
  <2>3. /\ poll' \in [Window -> OptionsPoll] /\ status' \in [Window -> BOOLEAN]
        /\ cache' \in [Window -> SUBSET Options!Option]
    <3>1. CASE Options!PollLink(w) \/ Options!PollAsk(w)
      BY <2>2, <3>1 DEF Options!PollLink, Options!PollAsk, OptionsTalk, OptionsPoll
    <3>2. CASE Options!PollTake(w)
      <4>1. poll[w].map \in SUBSET Options!Option
        BY <2>2, <3>2 DEF Options!PollTake, OptionsPoll, Options!Off
      <4> QED
        BY <3>2, <4>1 DEF Options!PollTake, OptionsTalk, OptionsPoll
    <3>3. CASE Options!PollLost(w)
      BY <3>3 DEF Options!PollLost, OptionsTalk, OptionsPoll
    <3> QED
      BY <1>13, <3>1, <3>2, <3>3 DEF Options!PollStep
  <2>4. OptionsTalk'
    BY <2>1, <2>3 DEF OptionsTalk
  <2> QED
    BY <1>a, <2>1, <2>4
<1>14. CASE UNCHANGED optionsVars
  BY <1>14 DEF optionsVars, OptionsTalk, OptionsKept, Options!SerialHasList, Options!OptionsAreWanted
<1> QED
  BY <1>1, <1>2, <1>3, <1>4, <1>5, <1>6, <1>7, <1>8, <1>9, <1>10, <1>11, <1>12, <1>13, <1>14
  DEF Options!Next, Options!SetterStep

\* What the runs check of the options follows.
LEMMA OptionsHold == OptionsInv => Options!TypeOK /\ Options!SerialHasList /\ Options!OptionsAreWanted
<1> SUFFICES ASSUME OptionsInv PROVE Options!TypeOK
  BY DEF OptionsInv, OptionsKept
<1>1. ASSUME NEW c \in Options!Setter
      PROVE  set[c].at \in {"idle", "ask", "asked", "sent", "done"} /\ own[c] \subseteq Options!Option
  <2>1. set[c] \in OptionsSet /\ own[c] \in SUBSET Options!Option
    BY DEF OptionsInv, OptionsTalk
  <2> QED
    BY <2>1 DEF OptionsSet, Options!Idle
<1>2. ASSUME NEW w \in Window
      PROVE  cache[w] \subseteq Options!Option /\ status[w] \in BOOLEAN /\ poll[w].at \in {"off", "linked", "told"}
  <2>1. poll[w] \in OptionsPoll /\ cache[w] \in SUBSET Options!Option /\ status[w] \in BOOLEAN
    BY DEF OptionsInv, OptionsTalk
  <2> QED
    BY <2>1 DEF OptionsPoll, Options!Off
<1> QED
  BY <1>1, <1>2 DEF Options!TypeOK, OptionsInv, OptionsTalk, OptionsKept

-----------------------------------------------------------------------------
(* The two copies on macOS (Sync). *)

\* The types; what was on the way to a service that died is gone.
SyncQueues ==
  /\ syncUser \in Cfg /\ root \in Cfg /\ cfg0 \in Cfg
  /\ toRoot \in Seq(Cfg \cup {Sync!AskFor}) /\ toUser \in Seq(Cfg \cup {Sync!Ack})
  /\ synced \in BOOLEAN /\ lost \in BOOLEAN /\ syncUp \in BOOLEAN /\ restart \in BOOLEAN
  /\ syncConn \in {"none", "up", "dead"} /\ (syncConn # "up" => toRoot = <<>>)
  /\ syncPc \in {"try", "ask", "asked", "watch", "sent", "skipped"}

\* Why the copies agree when nothing is on the way: the last thing on the way to the service, or else its
\* copy, is what the task takes the two to have in common; nothing else is on the way while the
\* task waits for the service's copy.
SyncInv ==
  /\ SyncQueues
  /\ syncPc = "try" => syncConn # "up"
  /\ syncPc = "ask" => toRoot = <<>> /\ toUser = <<>>
  /\ syncPc = "asked" =>
       \/ toRoot = <<Sync!AskFor>> /\ toUser = <<>>
       \/ toRoot = <<>> /\ toUser \in {<<>>, <<root>>}
  /\ syncPc \in {"ask", "asked"} => ~synced
  /\ synced => \A i \in DOMAIN toRoot : toRoot[i] \in Cfg
  /\ synced /\ ~lost => IF toRoot = <<>> THEN root = cfg0 ELSE toRoot[Len(toRoot)] = cfg0
  /\ Sync!RunsWithIt

\* What the constants of the synchronisation are.
LEMMA SyncBounds == Tries \in Nat \ {0} /\ Sync!Ack \notin Cfg /\ Sync!AskFor \notin Cfg
BY PartsAssumption DEF Sync!TriesAssumption

\* The two copies have nothing to do with one another at first.
LEMMA SyncInit == Sync!Init => SyncInv
<1> SUFFICES ASSUME Sync!Init PROVE SyncInv
  OBVIOUS
<1>1. SyncQueues
  <2>1. toRoot \in Seq(Cfg \cup {Sync!AskFor}) /\ toUser \in Seq(Cfg \cup {Sync!Ack})
    BY DEF Sync!Init
  <2>2. /\ syncUser \in Cfg /\ root \in Cfg /\ cfg0 \in Cfg /\ toRoot = <<>>
        /\ synced = FALSE /\ lost = FALSE /\ restart = FALSE /\ syncUp \in BOOLEAN
        /\ syncConn = "none" /\ syncPc = "try"
    BY DEF Sync!Init
  <2> QED
    BY <2>1, <2>2 DEF SyncQueues
<1>2. syncPc = "try" /\ syncConn = "none" /\ synced = FALSE /\ runs = syncUser
  BY DEF Sync!Init
<1> QED
  BY <1>1, <1>2 DEF SyncInv, Sync!RunsWithIt

\* Every step keeps it: of the task, of the service, and of the user.
LEMMA SyncStep ==
  ASSUME SyncInv, [Sync!Next]_syncVars
  PROVE  SyncInv'
<1> USE SyncBounds DEF SyncInv, SyncQueues, Sync!RunsWithIt
<1>1. CASE Sync!Connect
  <2>1. CASE syncUp
    BY <1>1, <2>1 DEF Sync!Connect, Sync!mediator
  <2>2. CASE ~syncUp
    BY <1>1, <2>2 DEF Sync!Connect, Sync!mediator, Sync!NextTry
  <2> QED
    BY <2>1, <2>2
<1>2. CASE Sync!Ask
  <2>1. CASE syncConn = "up"
    <3>1. toRoot' = <<Sync!AskFor>> /\ toUser' = <<>>
      BY <1>2, <2>1 DEF Sync!Ask
    <3> QED
      BY <1>2, <2>1, <3>1 DEF Sync!Ask, Sync!mediator
  <2>2. CASE syncConn # "up"
    BY <1>2, <2>2 DEF Sync!Ask, Sync!mediator
  <2> QED
    BY <2>1, <2>2
<1>3. CASE Sync!Take
  <2>1. toRoot = <<>> /\ toUser = <<root>> /\ Head(toUser) = root /\ Tail(toUser) = <<>>
    BY <1>3 DEF Sync!Take
  <2>2. /\ syncUser' \in {root, syncUser} /\ cfg0' = root /\ synced' = TRUE /\ syncPc' = "watch" /\ toUser' = <<>>
        /\ restart' = (restart \/ syncUser' # syncUser)
        /\ UNCHANGED <<root, syncTries, syncUp, syncConn, toRoot, runs, lost, syncBudget>>
    BY <1>3, <2>1 DEF Sync!Take, Sync!CheckIfRestart
  <2>3. restart' \in BOOLEAN /\ (runs' # syncUser' => restart')
    <3>1. runs # syncUser => restart
      OBVIOUS
    <3> QED
      BY <2>2, <3>1
  <2>4. SyncQueues'
    BY <2>1, <2>2, <2>3
  <2> QED
    BY <2>1, <2>2, <2>3, <2>4
<1>4. CASE Sync!TakeFails
  BY <1>4 DEF Sync!TakeFails, Sync!link, Sync!mediator
<1>5. CASE Sync!Push
  <2>1. /\ toRoot' = Append(toRoot, syncUser) /\ cfg0' = syncUser /\ syncPc' = "sent" /\ syncConn = "up"
        /\ UNCHANGED <<syncUser, root, synced, syncTries, syncUp, syncConn, toUser, restart, runs, lost, syncBudget>>
    BY <1>5 DEF Sync!Push, Sync!mediator
  <2>2. /\ toRoot' \in Seq(Cfg \cup {Sync!AskFor}) /\ toRoot' # <<>> /\ toRoot'[Len(toRoot')] = syncUser
        /\ synced => \A i \in DOMAIN toRoot' : toRoot'[i] \in Cfg
    BY <2>1
  <2> QED
    BY <2>1, <2>2
<1>6. CASE Sync!PushFails
  BY <1>6 DEF Sync!PushFails, Sync!NextTry, Sync!mediator
<1>7. CASE Sync!Sent
  <2>1. toUser' \in Seq(Cfg \cup {Sync!Ack})
    BY <1>7 DEF Sync!Sent
  <2> QED
    BY <1>7, <2>1 DEF Sync!Sent, Sync!mediator
<1>8. CASE Sync!Handle
  <2>1. /\ toRoot # <<>> /\ toRoot' = Tail(toRoot)
        /\ IF Head(toRoot) = Sync!AskFor
           THEN toUser' = Append(toUser, root) /\ root' = root
           ELSE root' = Head(toRoot) /\ toUser' = Append(toUser, Sync!Ack)
        /\ UNCHANGED <<syncUser, cfg0, synced, syncPc, syncTries, syncUp, syncConn, restart, runs, lost, syncBudget>>
    BY <1>8 DEF Sync!Handle, Sync!task, Sync!mediator
  <2>2. Head(toRoot) \in Cfg \cup {Sync!AskFor} /\ toRoot' \in Seq(Cfg \cup {Sync!AskFor})
    BY <2>1
  <2>3. root' \in Cfg /\ toUser' \in Seq(Cfg \cup {Sync!Ack})
    <3>1. CASE Head(toRoot) = Sync!AskFor
      BY <2>1, <3>1
    <3>2. CASE Head(toRoot) # Sync!AskFor
      <4>1. Append(toUser, Sync!Ack) \in Seq(Cfg \cup {Sync!Ack})
        OBVIOUS
      <4> QED
        BY <2>1, <2>2, <3>2, <4>1
    <3> QED
      BY <3>1, <3>2
  <2>4. CASE syncPc = "asked"
    <3>1. toRoot = <<Sync!AskFor>> /\ toUser = <<>>
      BY <2>1, <2>4
    <3>2. toRoot' = <<>> /\ toUser' = <<root>> /\ root' = root
      BY <2>1, <3>1
    <3> QED
      BY <2>1, <2>2, <2>3, <2>4, <3>2
  <2>5. CASE syncPc # "asked"
    <3>1. /\ synced => Head(toRoot) \in Cfg /\ Head(toRoot) = toRoot[1] /\ root' = Head(toRoot)
          /\ synced => \A i \in DOMAIN toRoot' : toRoot'[i] \in Cfg
      BY <2>1
    <3>2. IF toRoot' = <<>> THEN Head(toRoot) = toRoot[Len(toRoot)] ELSE toRoot'[Len(toRoot')] = toRoot[Len(toRoot)]
      BY <2>1
    <3> QED
      BY <2>1, <2>2, <2>3, <2>5, <3>1, <3>2
  <2> QED
    BY <2>4, <2>5
<1>9. CASE Sync!Die
  <2>1. /\ syncUp' = FALSE /\ toRoot' = <<>>
        /\ syncConn' = IF syncConn = "up" THEN "dead" ELSE syncConn
        /\ lost' = (lost \/ \E i \in DOMAIN toRoot : toRoot[i] # Sync!AskFor)
        /\ UNCHANGED <<syncUser, root, cfg0, synced, syncPc, syncTries, toUser, restart, runs>>
    BY <1>9 DEF Sync!Die, Sync!task, Sync!mediator
  <2>2. synced /\ ~lost' => ~lost /\ toRoot = <<>>
    <3> SUFFICES ASSUME synced, toRoot # <<>> PROVE \E i \in DOMAIN toRoot : toRoot[i] # Sync!AskFor
      BY <2>1
    <3>1. 1 \in DOMAIN toRoot
      OBVIOUS
    <3> QED
      BY <3>1
  <2>3. lost' \in BOOLEAN /\ syncConn' \in {"none", "dead"}
    BY <2>1
  <2>4. SyncQueues'
    <3>1. toRoot' \in Seq(Cfg \cup {Sync!AskFor})
      BY <2>1
    <3> QED
      BY <2>1, <2>3, <3>1
  <2>5. syncPc = "asked" => toRoot' = <<>> /\ toUser' \in {<<>>, <<root'>>}
    BY <2>1
  <2> QED
    BY <2>1, <2>2, <2>3, <2>4, <2>5
<1>10. CASE Sync!Rise
  BY <1>10 DEF Sync!Rise, Sync!task, Sync!mediator
<1>11. CASE Sync!Set
  BY <1>11 DEF Sync!Set, Sync!task, Sync!link
<1>12. CASE Sync!Rerun
  BY <1>12 DEF Sync!Rerun, Sync!task, Sync!link
<1>13. CASE UNCHANGED syncVars
  BY <1>13 DEF syncVars
<1> QED
  BY <1>1, <1>2, <1>3, <1>4, <1>5, <1>6, <1>7, <1>8, <1>9, <1>10, <1>11, <1>12, <1>13
  DEF Sync!Next, Sync!Watch

\* What the runs check of the two copies follows.
LEMMA SyncHolds == SyncInv => Sync!DifferenceIsExplained /\ Sync!RunsWithIt
BY DEF SyncInv, SyncQueues, Sync!DifferenceIsExplained

-----------------------------------------------------------------------------
(* The one-time password (Password). *)

\* Why a password is in time and not before it: the minutes counted are those since the last
\* password, or more where the setting was changed in between, as the service knows or as it
\* will find out when it next reaches the server.
PasswordInv ==
  /\ Password!TypeOK /\ Password!InTime /\ Password!ServerHasIt
  /\ since <= cntr
  /\ cntr # since => mixed \/ passwordCopy \notin {setting, None}
  /\ passwordCopy = None => cntr = 0
  /\ passwordCopy = Other /\ cntr > 0 => mixed

\* What the constants of the timer are.
LEMMA PasswordBounds ==
  Period \subseteq Nat \ {0} /\ None \notin Period /\ Other \notin Period /\ None # Other /\ MaxPassword \in Nat
BY PartsAssumption DEF Password!PasswordTimerAssumption

\* It holds at first: nothing is counted.
LEMMA PasswordInit == Password!Init => PasswordInv
<1> SUFFICES ASSUME Password!Init PROVE PasswordInv
  OBVIOUS
<1>1. /\ setting \in Password!Setting /\ passwordCopy \in Password!Setting
      /\ cntr = 0 /\ since = 0 /\ passwordServer = "off" /\ passwordFile = 0 /\ password = 0
      /\ mixed = FALSE /\ passwordLate = FALSE
  BY DEF Password!Init
<1>2. setting \in Period => 0 < setting
  BY PasswordBounds
<1>3. Password!TypeOK
  <2>1. cntr \in Nat /\ since \in Nat /\ ~(cntr > 0) /\ passwordFile \in 0 .. MaxPassword /\ password \in 0 .. passwordFile
    BY <1>1, PasswordBounds
  <2> QED
    BY <1>1, <2>1 DEF Password!TypeOK
<1> QED
  BY <1>1, <1>2, <1>3 DEF PasswordInv, Password!InTime, Password!ServerHasIt

\* Each minute, each new setting and each start of a server keeps it, and a new password is made only
\* when it is time, or when the setting changed on the way.
LEMMA PasswordStep ==
  ASSUME PasswordInv, [Password!Next]_passwordVars
  PROVE  /\ PasswordInv'
         /\ Password!Changes =>
              \/ since + 1 >= Password!Known \/ Password!Mixed \/ Password!Known # setting
<1>0. /\ setting \in Password!Setting /\ passwordCopy \in Password!Setting /\ Password!Known \in Password!Setting
      /\ cntr \in Nat /\ since \in Nat /\ since <= cntr
      /\ mixed \in BOOLEAN /\ passwordLate \in BOOLEAN /\ Password!Mixed \in BOOLEAN
      /\ passwordFile \in 0 .. MaxPassword /\ password \in 0 .. passwordFile
      /\ passwordServer = "up" => Password!Known = setting
      /\ Password!Known # setting => Password!Known = passwordCopy
  BY DEF PasswordInv, Password!TypeOK, Password!Known, Password!Mixed
<1>1. CASE Password!MinuteOff
  <2>1. /\ Password!Known = None /\ cntr' = 0 /\ since' = 0 /\ passwordCopy' = None /\ mixed' = FALSE
        /\ UNCHANGED <<setting, passwordServer, passwordFile, password, passwordLate>>
    BY <1>1 DEF Password!MinuteOff
  <2>2. Password!TypeOK'
    <3>1. cntr' \in Nat /\ since' \in Nat /\ ~(cntr' > 0) /\ passwordCopy' \in Password!Setting
      BY <2>1 DEF Password!Setting
    <3> QED
      BY <1>0, <2>1, <3>1 DEF PasswordInv, Password!TypeOK
  <2>3. Password!InTime'
    BY <2>1, PasswordBounds DEF Password!InTime
  <2> QED
    BY <2>1, <2>2, <2>3, PasswordBounds DEF PasswordInv, Password!ServerHasIt, Password!Changes
<1>2. CASE Password!MinuteOther
  <2>1. /\ Password!Known = Other /\ since' = 0 /\ passwordCopy' = Other /\ mixed' = Password!Mixed
        /\ UNCHANGED <<setting, cntr, passwordServer, passwordFile, password, passwordLate>>
    BY <1>2 DEF Password!MinuteOther
  <2>2. Password!TypeOK'
    BY <1>0, <2>1, PasswordBounds DEF PasswordInv, Password!TypeOK, Password!Setting
  <2>3. Password!InTime'
    BY <2>1, PasswordBounds DEF Password!InTime
  <2>4. cntr > 0 => Password!Mixed
    BY <1>0, <2>1, PasswordBounds DEF PasswordInv, Password!Mixed
  <2>5. since' <= cntr' /\ (cntr' # since' => mixed')
    BY <1>0, <2>1, <2>4
  <2> QED
    BY <2>1, <2>2, <2>3, <2>4, <2>5, PasswordBounds DEF PasswordInv, Password!ServerHasIt, Password!Changes
<1>3. CASE Password!MinuteCounts
  <2>1. /\ Password!Known \in Period /\ cntr + 1 < Password!Known
        /\ cntr' = cntr + 1 /\ since' = Password!Since /\ passwordCopy' = Password!Known /\ mixed' = Password!Mixed
        /\ UNCHANGED <<setting, passwordServer, passwordFile, password, passwordLate>>
    BY <1>3 DEF Password!MinuteCounts
  <2>2. Password!Since = IF Password!Known = setting THEN since + 1 ELSE 0
    BY DEF Password!Since
  <2>3. since' \in Nat /\ since' <= cntr' /\ cntr' \in Nat
    BY <1>0, <2>1, <2>2
  <2>4. Password!TypeOK'
    BY <1>0, <2>1, <2>3, PasswordBounds DEF PasswordInv, Password!TypeOK, Password!Setting
  <2>5. Password!InTime'
    <3>1. CASE Password!Known = setting
      BY <1>0, <2>1, <2>2, <3>1, PasswordBounds DEF Password!InTime
    <3>2. CASE Password!Known # setting
      BY <1>0, <2>1, <2>2, <3>2, PasswordBounds DEF Password!InTime
    <3> QED
      BY <3>1, <3>2
  <2>6. cntr' # since' => mixed' \/ passwordCopy' # setting'
    <3>1. CASE Password!Known # setting
      BY <2>1, <3>1
    <3>2. CASE Password!Known = setting
      <4>1. cntr # since => mixed \/ (passwordCopy # setting /\ passwordCopy # None /\ cntr > 0)
        BY <1>0 DEF PasswordInv
      <4>2. cntr # since => Password!Mixed
        BY <3>2, <4>1 DEF Password!Mixed
      <4> QED
        BY <1>0, <2>1, <2>2, <3>2, <4>2
    <3> QED
      BY <3>1, <3>2
  <2>7. passwordCopy' # None /\ passwordCopy' # Other
    BY <2>1, PasswordBounds
  <2> QED
    BY <2>1, <2>3, <2>4, <2>5, <2>6, <2>7 DEF PasswordInv, Password!ServerHasIt, Password!Changes
<1>4. CASE Password!MinuteChanges
  <2>1. /\ Password!Known \in Period /\ cntr + 1 >= Password!Known
        /\ cntr' = 0 /\ since' = 0 /\ passwordCopy' = Password!Known /\ mixed' = FALSE
        /\ UNCHANGED <<setting, passwordServer>>
    BY <1>4 DEF Password!MinuteChanges
  <2>2. /\ passwordFile + 1 <= MaxPassword /\ passwordFile' = passwordFile + 1
        /\ password' = IF passwordServer = "up" THEN passwordFile + 1 ELSE password
        /\ passwordLate' = (passwordLate \/ passwordServer = "read")
    BY <1>4 DEF Password!MinuteChanges, Password!Keep
  <2>3. passwordFile' \in 0 .. MaxPassword /\ password' \in 0 .. passwordFile' /\ passwordLate' \in BOOLEAN
    BY <1>0, <2>2, PasswordBounds
  <2>4. Password!TypeOK'
    <3>1. cntr' \in Nat /\ since' \in Nat /\ ~(cntr' > 0) /\ passwordCopy' \in Password!Setting
      BY <1>0, <2>1
    <3> QED
      BY <1>0, <2>1, <2>3, <3>1 DEF PasswordInv, Password!TypeOK
  <2>5. Password!InTime'
    BY <2>1, PasswordBounds DEF Password!InTime
  <2>6. Password!ServerHasIt'
    BY <1>0, <2>1, <2>2 DEF PasswordInv, Password!TypeOK, Password!ServerHasIt
  <2>7. since + 1 >= Password!Known \/ Password!Mixed \/ Password!Known # setting
    <3> SUFFICES ASSUME cntr # since, Password!Known = setting PROVE Password!Mixed
      BY <1>0, <2>1
    <3>1. mixed \/ (passwordCopy # setting /\ passwordCopy # None /\ cntr > 0)
      BY <1>0 DEF PasswordInv
    <3> QED
      BY <3>1 DEF Password!Mixed
  <2>8. passwordCopy' # None /\ cntr' = since'
    BY <2>1, PasswordBounds
  <2> QED
    BY <2>1, <2>4, <2>5, <2>6, <2>7, <2>8, PasswordBounds DEF PasswordInv
<1>5. ASSUME NEW s \in Password!Setting, Password!Set(s)
      PROVE  PasswordInv' /\ ~Password!Changes
  <2>1. /\ setting' = s /\ since' = 0
        /\ mixed' = (mixed \/ ((setting # None \/ passwordCopy # None) /\ cntr > 0))
        /\ UNCHANGED <<passwordCopy, cntr, passwordServer, passwordFile, password, passwordLate>>
    BY <1>5 DEF Password!Set
  <2>2. mixed' \in BOOLEAN /\ (cntr > 0 => mixed')
    <3>1. cntr > 0 => passwordCopy # None
      BY <1>0 DEF PasswordInv
    <3> QED
      BY <1>0, <2>1, <3>1
  <2>3. Password!TypeOK'
    BY <1>0, <2>1, <2>2, PasswordBounds DEF PasswordInv, Password!TypeOK
  <2>4. Password!InTime'
    BY <2>1, PasswordBounds DEF Password!InTime
  <2>5. since' <= cntr' /\ (cntr' # since' => mixed')
    BY <1>0, <2>1, <2>2
  <2> QED
    BY <2>1, <2>2, <2>3, <2>4, <2>5 DEF PasswordInv, Password!ServerHasIt, Password!Changes
<1>6. CASE Password!Start \/ Password!Listen \/ Password!Stop
  <2>1. /\ UNCHANGED <<setting, passwordCopy, cntr, passwordFile, since, mixed, passwordLate>>
        /\ passwordServer' \in {"off", "read", "up"}
        /\ \/ password' = passwordFile
           \/ password' = password /\ (passwordServer' # "off" => passwordServer # "off")
    BY <1>6 DEF Password!Start, Password!Listen, Password!Stop
  <2>2. Password!TypeOK'
    BY <1>0, <2>1 DEF PasswordInv, Password!TypeOK
  <2> QED
    BY <2>1, <2>2 DEF PasswordInv, Password!InTime, Password!ServerHasIt, Password!Changes
<1>7. CASE UNCHANGED passwordVars
  BY <1>7 DEF passwordVars, PasswordInv, Password!TypeOK, Password!InTime, Password!ServerHasIt, Password!Changes
<1> QED
  BY <1>1, <1>2, <1>3, <1>4, <1>5, <1>6, <1>7 DEF Password!Next, Password!Minute

-----------------------------------------------------------------------------
(* The services of Windows and Linux (WinService, LinService). *)

\* Why no server is lost: the one that runs is the one whose handle is held, and there is
\* none when the next one is started; and only who finds the endpoint free listens.
WinInv ==
  /\ WinService!TypeOK /\ WinService!OursIsHeld
  /\ winServicePc \in {"boot", "first", "spawn"} => \A p \in Proc \ {Foreign} : ~WinService!Running(p)

\* There is only a server started by someone else at first, if any.
LEMMA WinServiceInit == WinService!Init => WinInv
<1> SUFFICES ASSUME WinService!Init PROVE WinInv
  OBVIOUS
<1> USE DEF WinService!Init
<1>0. Foreign \in Proc /\ Nobody \notin Seat \cup Proc /\ MaxMoves \in Nat /\ MaxCrashes \in Nat
  BY PartsAssumption DEF WinService!WindowsServiceAssumption
<1>1. WinService!Listener \subseteq {Foreign}
  BY DEF WinService!Listener
<1>3. seat \in [Proc -> Seat] /\ proc \in [Proc -> {"free", "starting", "serving", "closing", "ended"}]
  OBVIOUS
<1>4. WinService!TypeOK
  <2>1. \A p, q \in WinService!Listener : p = q
    BY <1>1
  <2>2. console \in Seat \cup {Nobody} /\ session = Nobody /\ handle = Nobody
    OBVIOUS
  <2>3. moves \in 0 .. MaxMoves /\ winServiceFails \in 0 .. MaxCrashes
    BY <1>0
  <2>4. winServicePc = "boot" /\ winServiceTold = FALSE /\ deaf = FALSE /\ stop = "no"
    OBVIOUS
  <2> HIDE DEF WinService!Init
  <2> QED
    BY <1>3, <2>1, <2>2, <2>3, <2>4 DEF WinService!TypeOK
<1>5. \A p \in Proc \ {Foreign} : ~WinService!Running(p)
  BY DEF WinService!Running
<1> QED
  BY <1>4, <1>5 DEF WinInv, WinService!OursIsHeld

\* Each turn of the service, and whatever its servers and the seats do, keeps it.
LEMMA WinServiceStep ==
  ASSUME WinInv, [WinService!Next]_winServiceVars
  PROVE  WinInv'
<1> USE DEF WinInv, WinService!TypeOK, WinService!OursIsHeld, WinService!Running, WinService!Listener
<1>0. Foreign \in Proc /\ Nobody \notin Seat \cup Proc /\ MaxMoves \in Nat /\ MaxCrashes \in Nat
  BY PartsAssumption DEF WinService!WindowsServiceAssumption
<1>1. CASE WinService!Boot
  BY <1>0, <1>1 DEF WinService!Boot, WinService!SendClose, WinService!bounds
<1>2. CASE WinService!Tick
  <2>1. CASE console # session
    BY <1>0, <1>2, <2>1 DEF WinService!Tick, WinService!SendClose, WinService!bounds
  <2>2. CASE console = session
    BY <1>0, <1>2, <2>2 DEF WinService!Tick, WinService!bounds
  <2> QED
    BY <2>1, <2>2
<1>3. CASE WinService!Probe
  BY <1>0, <1>3 DEF WinService!Probe, WinService!SendClose, WinService!bounds
<1>4. ASSUME NEW p \in Proc, WinService!Spawn(p) PROVE WinInv'
  BY <1>0, <1>4 DEF WinService!Spawn, WinService!bounds
<1>5. CASE WinService!SpawnFails
  BY <1>0, <1>5 DEF WinService!SpawnFails, WinService!procs
<1>6. CASE WinService!HearStop \/ WinService!Stop
  BY <1>0, <1>6 DEF WinService!HearStop, WinService!Stop, WinService!procs, WinService!bounds
<1>7. CASE WinService!End
  BY <1>0, <1>7 DEF WinService!End, WinService!SendClose, WinService!bounds
<1>8. ASSUME NEW p \in Proc, WinService!Listen(p) PROVE WinInv'
  BY <1>0, <1>8 DEF WinService!Listen, WinService!bounds
<1>9. ASSUME NEW p \in Proc, WinService!Close(p) \/ WinService!Reap(p) PROVE WinInv'
  BY <1>0, <1>9 DEF WinService!Close, WinService!Reap, WinService!bounds
<1>10. ASSUME NEW p \in Proc, WinService!Crash(p) PROVE WinInv'
  BY <1>0, <1>10 DEF WinService!Crash
<1>11. CASE WinService!Move
  BY <1>0, <1>11 DEF WinService!Move, WinService!procs
<1>12. CASE WinService!Elsewhere
  BY <1>0, <1>12 DEF WinService!Elsewhere
<1>13. CASE UNCHANGED winServiceVars
  BY <1>13 DEF winServiceVars
<1> QED
  BY <1>1, <1>2, <1>3, <1>4, <1>5, <1>6, <1>7, <1>8, <1>9, <1>10, <1>11, <1>12, <1>13
  DEF WinService!Next, WinService!Service, WinService!Servers

\* Why the workaround spares who is seen, and who is young: what the service knows of the
\* windows is what it saw at the top of the turn; a server is as old as the last restart,
\* until one has ended by itself or did not start.
LinInv ==
  /\ LinService!TypeOK /\ LinService!OfTheUser
  /\ linServicePc = "user" /\ ~linServiceCm => shown = {}
  /\ linServicePc # "done" /\ ~linServiceStale => IF linServiceServer = "up" THEN age >= linServiceLast ELSE linServiceLast = 0

\* There is no server at first.
LEMMA LinServiceInit == LinService!Init => LinInv
<1> SUFFICES ASSUME LinService!Init PROVE LinInv
  OBVIOUS
<1>0. MaxFails \in Nat
  BY PartsAssumption DEF LinService!LinuxServiceAssumption
<1>1. linServiceConn \in [Visitor -> {"none", "new", "shown"}]
  BY DEF LinService!Init
<1>2. window \in BOOLEAN
  BY DEF LinService!Init
<1>3. LinService!Shown = {}
  BY DEF LinService!Init, LinService!Shown
<1>4. linServiceUser \in Account \cup {Nobody} /\ uid = Nobody /\ of = Nobody
  BY DEF LinService!Init
<1>5. age \in 0 .. 2 /\ linServiceLast \in 0 .. 2 /\ linServiceFails \in 0 .. MaxFails
  BY <1>0 DEF LinService!Init
<1>6. linServiceServer = "none" /\ linServicePc = "top" /\ running = TRUE /\ linServiceCm = FALSE /\ cm0 = FALSE /\ shown = {} /\ linServiceStale = FALSE /\ linServiceLast = 0
  BY DEF LinService!Init
<1>7. LinService!TypeOK
  BY <1>1, <1>2, <1>3, <1>4, <1>5, <1>6 DEF LinService!TypeOK
<1> QED
  BY <1>6, <1>7 DEF LinInv, LinService!OfTheUser

\* Each step of a turn, and whatever the servers and the users do, keeps it.
LEMMA LinServiceStep ==
  ASSUME LinInv, [LinService!Next]_linServiceVars
  PROVE  LinInv'
<1> USE DEF LinInv, LinService!TypeOK, LinService!OfTheUser, LinService!Shown
<1>0. MaxFails \in Nat
  BY PartsAssumption DEF LinService!LinuxServiceAssumption
<1>1. CASE LinService!Look
  BY <1>1 DEF LinService!Look, LinService!Shown, LinService!child, LinService!world
<1>2. CASE LinService!SwitchUser
  <2>1. /\ linServiceUser' = linServiceUser /\ uid' = linServiceUser /\ linServicePc = "user" /\ linServicePc' = "reap"
        /\ UNCHANGED <<of, age, linServiceConn, window, linServiceCm, cm0, running, linServiceFails, shown>>
    BY <1>2 DEF LinService!SwitchUser, LinService!world
  <2>2. /\ linServiceServer' = IF linServiceServer = "up" THEN "dying" ELSE linServiceServer
        /\ IF linServiceServer = "none" THEN UNCHANGED <<linServiceLast, linServiceStale>>
                                       ELSE linServiceLast' = 0 /\ linServiceStale' = FALSE
    BY <1>2 DEF LinService!SwitchUser, LinService!Restart, LinService!Kill
  <2>3. linServiceServer' # "up" /\ (linServiceServer = "none" <=> linServiceServer' = "none")
    BY <2>2
  <2>4. linServiceServer' \in {"none", "dying", "ended"} /\ linServiceLast' \in {0, linServiceLast} /\ linServiceStale' \in {FALSE, linServiceStale}
    BY <2>2
  <2>5. LinService!Shown' = LinService!Shown
    BY <2>1
  <2> HIDE DEF LinService!Shown
  <2>6. LinService!TypeOK'
    <3>1. linServiceStale' \in BOOLEAN
      BY <2>4
    <3>2. linServiceLast' \in 0 .. 2
      BY <2>4
    <3> QED
      BY <2>1, <2>4, <2>5, <3>1, <3>2
  <2> QED
    BY <2>1, <2>2, <2>3, <2>6
<1>3. CASE LinService!IdleRestart
  <2>1. /\ linServicePc = "user" /\ linServicePc' = "reap"
        /\ UNCHANGED <<linServiceUser, uid, of, age, linServiceConn, window, linServiceCm, cm0, running, linServiceFails, shown>>
    BY <1>3 DEF LinService!IdleRestart, LinService!world
  <2>2. /\ linServiceServer' = IF linServiceServer = "up" THEN "dying" ELSE linServiceServer
        /\ IF linServiceServer = "none" THEN UNCHANGED <<linServiceLast, linServiceStale>>
                                       ELSE linServiceLast' = 0 /\ linServiceStale' = FALSE
    BY <1>3 DEF LinService!IdleRestart, LinService!Restart, LinService!Kill
  <2>3. linServiceServer' # "up" /\ (linServiceServer = "none" <=> linServiceServer' = "none")
    BY <2>2
  <2>4. linServiceServer' \in {"none", "dying", "ended"} /\ linServiceLast' \in {0, linServiceLast} /\ linServiceStale' \in {FALSE, linServiceStale}
    BY <2>2
  <2>5. LinService!Shown' = LinService!Shown
    BY <2>1
  <2> HIDE DEF LinService!Shown
  <2>6. LinService!TypeOK'
    <3>1. linServiceStale' \in BOOLEAN
      BY <2>4
    <3>2. linServiceLast' \in 0 .. 2
      BY <2>4
    <3> QED
      BY <2>1, <2>4, <2>5, <3>1, <3>2
  <2> QED
    BY <2>1, <2>2, <2>3, <2>6
<1>4. CASE LinService!Stay
  BY <1>4 DEF LinService!Stay, LinService!child, LinService!world
<1>5. CASE LinService!Keep
  BY <1>5 DEF LinService!Keep, LinService!Over, LinService!child, LinService!world
<1>6. CASE LinService!Launch
  BY <1>6 DEF LinService!Launch, LinService!Over, LinService!world
<1>7. CASE LinService!LaunchFails
  BY <1>0, <1>7 DEF LinService!LaunchFails, LinService!Over, LinService!world
<1>8. CASE LinService!Quit
  BY <1>8 DEF LinService!Quit, LinService!Kill, LinService!world
<1>9. CASE LinService!Dies \/ LinService!Crash
  <2>1. linServiceConn' = [c \in Visitor |-> "none"] /\ LinService!Shown' = {}
    BY <1>9 DEF LinService!Dies, LinService!Crash
  <2>2. /\ linServiceServer \in {"up", "dying"} /\ linServiceServer' = "ended"
        /\ linServiceStale' = TRUE \/ (linServiceStale' = linServiceStale /\ linServiceServer = "dying")
        /\ linServiceFails' \in 0 .. MaxFails
        /\ UNCHANGED <<uid, linServiceCm, cm0, linServicePc, linServiceUser, window, running, of, age, linServiceLast, shown>>
    BY <1>0, <1>9 DEF LinService!Dies, LinService!Crash, LinService!turn
  <2>3. linServiceStale' \in BOOLEAN /\ linServiceConn' \in [Visitor -> {"none", "new", "shown"}]
    BY <2>1, <2>2
  <2> HIDE DEF LinService!Shown
  <2>4. LinService!TypeOK'
    BY <2>1, <2>2, <2>3
  <2> QED
    BY <2>1, <2>2, <2>4
<1>10. ASSUME NEW c \in Visitor, LinService!Connect(c) \/ LinService!Show(c) \/ LinService!Disconnect(c)
       PROVE  LinInv'
  <2>1. linServiceConn' \in [Visitor -> {"none", "new", "shown"}]
    BY <1>10 DEF LinService!Connect, LinService!Show, LinService!Disconnect
  <2>2. LinService!Shown' \subseteq LinService!Shown \/ window' = TRUE
    BY <1>10 DEF LinService!Connect, LinService!Show, LinService!Disconnect
  <2>3. /\ window' \in {window, TRUE}
        /\ UNCHANGED <<uid, linServiceCm, cm0, linServicePc, linServiceServer, of, age, linServiceUser, running,
                       linServiceLast, linServiceFails, shown, linServiceStale>>
    BY <1>10 DEF LinService!Connect, LinService!Show, LinService!Disconnect, LinService!turn, LinService!child
  <2> HIDE DEF LinService!Shown
  <2>4. window' \in BOOLEAN /\ (LinService!Shown' # {} => window')
    BY <2>2, <2>3
  <2>5. LinService!TypeOK'
    BY <2>1, <2>3, <2>4
  <2> QED
    BY <2>3, <2>5
<1>11. CASE LinService!Hide \/ LinService!Sit \/ LinService!CtrlC
  <2>1. /\ linServiceUser' \in Account \cup {Nobody} /\ running' \in BOOLEAN /\ window' \in BOOLEAN
        /\ LinService!Shown = {} \/ window' = window
        /\ UNCHANGED <<uid, linServiceCm, cm0, linServicePc, linServiceServer, of, age, linServiceConn,
                       linServiceLast, linServiceFails, shown, linServiceStale>>
    BY <1>11 DEF LinService!Hide, LinService!Sit, LinService!CtrlC, LinService!turn, LinService!child
  <2>2. LinService!Shown' = LinService!Shown
    BY <2>1
  <2> HIDE DEF LinService!Shown
  <2> QED
    BY <2>1, <2>2
<1>12. ASSUME NEW k \in 1 .. 2, LinService!Time(k) PROVE LinInv'
  BY <1>12 DEF LinService!Time, LinService!turn, LinService!world
<1>13. CASE UNCHANGED linServiceVars
  BY <1>13 DEF linServiceVars
<1> QED
  BY <1>1, <1>2, <1>3, <1>4, <1>5, <1>6, <1>7, <1>8, <1>9, <1>10, <1>11, <1>12, <1>13
  DEF LinService!Next, LinService!Loop, LinService!World

-----------------------------------------------------------------------------
(* What the parts promise, side by side.                                   *)

\* What holds of the settings.
SettingsInv ==
  /\ part # "config_together" => StoredInv
  /\ part = "config_together" => TogetherInv
  /\ OptionsInv /\ SyncInv /\ PasswordInv

\* It holds at first, whichever part is to move.
LEMMA SettingsInit == PartsInit => SettingsInv
BY StoredInit, TogetherInit, OptionsInit, SyncInit, PasswordInit DEF PartsInit, SettingsInv

\* Every step keeps it.
LEMMA SettingsStep == SettingsInv /\ [PartsNext]_partsVars => SettingsInv'
BY PartsMove, StoredStep, TogetherStep, OptionsStep, SyncStep, PasswordStep DEF SettingsInv

\* What is set stays set, whichever process keeps it and whoever ends in between: the password
\* of the server and the pair a window trusts (config.rs, ipc.rs, server.rs); on one file, unless
\* a copy that had missed something was stored; the options, and the list of servers that goes
\* with its serial; the copies of user and root on macOS; and the one-time password.
THEOREM SettingsStaySet == PartsSpec => []SettingsSurvive
<1>1. SettingsInv => SettingsSurvive
  BY StoredHolds, OptionsHold, SyncHolds DEF SettingsInv, SettingsSurvive, TogetherInv, PasswordInv
<1> QED
  BY <1>1, SettingsInit, SettingsStep, PTL DEF PartsSpec

\* What holds of the services.
ServicesInv == WinInv /\ LinInv

\* It holds at first, and every step keeps it.
LEMMA ServicesInvariance == PartsSpec => []ServicesInv
<1>1. PartsInit => ServicesInv
  BY WinServiceInit, LinServiceInit DEF PartsInit, ServicesInv
<1>2. ServicesInv /\ [PartsNext]_partsVars => ServicesInv'
  BY PartsMove, WinServiceStep, LinServiceStep DEF ServicesInv
<1> QED
  BY <1>1, <1>2, PTL DEF PartsSpec

\* Whatever fails, crashes or moves to another seat, each server that runs is held by the Windows
\* service that started it, and on Linux belongs to the user it was started for
\* (platform/windows.rs, run_service; platform/linux.rs, start_os_service).
THEOREM ServersStayHeld == PartsSpec => []ServersAreHeld
<1>1. ServicesInv => ServersAreHeld
  BY DEF ServicesInv, ServersAreHeld, WinInv, LinInv
<1> QED
  BY <1>1, ServicesInvariance, PTL

\* The Linux service restarts a server only when no one is seen, and no young one but where one
\* had ended by itself.
LEMMA IdleSpares ==
  ASSUME LinInv, [LinService!Next]_linServiceVars
  PROVE  LinService!Idle => shown = {} /\ (age >= 1 \/ linServiceStale)
<1> SUFFICES ASSUME LinService!Idle PROVE LinService!IdleRestart
  BY DEF LinInv, LinService!TypeOK, LinService!IdleRestart
<1> USE DEF LinService!Idle
<1>1. ~LinService!Look /\ ~LinService!Keep /\ ~LinService!Launch /\ ~LinService!LaunchFails /\ ~LinService!Quit
  BY DEF LinService!Look, LinService!Keep, LinService!Launch, LinService!LaunchFails, LinService!Quit
<1>2. ~LinService!Stay /\ ~LinService!SwitchUser
  BY DEF LinService!Stay, LinService!SwitchUser, LinService!Changed, LinService!child, LinService!world
<1>3. ~LinService!World /\ ~UNCHANGED linServiceVars
  BY DEF LinService!World, LinService!Dies, LinService!Crash, LinService!Connect, LinService!Show,
    LinService!Disconnect, LinService!Hide, LinService!Sit, LinService!CtrlC, LinService!Time, LinService!turn,
    linServiceVars
<1> QED
  BY <1>1, <1>2, <1>3 DEF LinService!Next, LinService!Loop

\* What is done once or not before its time is so whatever else happens: the key pair is made
\* once ("lock here to make sure no gen_keypair more than once", config.rs); a one-time password
\* is not replaced early (main.rs, --service); the workaround for a server that is stuck spares
\* who is seen and who is young (platform/linux.rs).
THEOREM OnceAndNotBefore == PartsSpec => DoneOnceOnly
<1>1. SettingsInv /\ [PartsNext]_partsVars => [part = "config" => Stored!KeyStays]_partsVars
  BY PartsMove, StoredStep DEF SettingsInv
<1>2. SettingsInv /\ [PartsNext]_partsVars =>
        [Password!Changes => since + 1 >= Password!Known \/ Password!Mixed \/ Password!Known # setting]_(Password!vars)
  BY PartsMove, PasswordStep DEF SettingsInv
<1>3. ServicesInv /\ [PartsNext]_partsVars => [LinService!Idle => shown = {}]_(LinService!vars)
  BY PartsMove, IdleSpares DEF ServicesInv
<1>4. ServicesInv /\ [PartsNext]_partsVars => [LinService!Idle => age >= 1 \/ linServiceStale]_(LinService!vars)
  BY PartsMove, IdleSpares DEF ServicesInv
<1> QED
  BY <1>1, <1>2, <1>3, <1>4, SettingsInit, SettingsStep, ServicesInvariance, PTL
  DEF PartsSpec, DoneOnceOnly, Password!NotBefore, LinService!SeenAreSpared, LinService!AgedUnlessStale

-----------------------------------------------------------------------------
\* What is left of a queue when its first element is taken.
LEMMA RestIsQueue ==
  ASSUME NEW S, NEW s \in Seq(S), s # <<>>
  PROVE  Head(s) \in S /\ Tail(s) \in Seq(S)
OBVIOUS

-----------------------------------------------------------------------------
(* The keys: for every setting z of the connections, the modifiers, the    *)
(* keys, the two systems and the bounds.                                   *)

Relay(z) == INSTANCE KeyRelay WITH
  Conn <- z.conn, Mod <- z.mod, Key <- z.key, Linux <- z.linux, OnWindows <- z.windows,
  MaxEvents <- z.events, Room <- z.room, told <- keyTold, perm <- keyPerm, input <- keyInput,
  down <- keyDown, late <- keyLate, events <- keyEvents

KeyEvents(z) == [key : z.key, down : BOOLEAN, mods : SUBSET z.mod, caps : BOOLEAN, press : BOOLEAN]

KeyTypes(z) ==
  /\ held \in [z.conn -> SUBSET z.key] /\ caps \in [z.conn -> BOOLEAN]
  /\ wire \in [z.conn -> Seq(KeyEvents(z))] /\ keyInput \in [z.conn -> Seq(KeyEvents(z))]
  /\ hand \in [z.conn -> KeyEvents(z) \cup {<<>>}]
  /\ keyDown \subseteq z.key /\ keysDown \in [z.key -> {"absent", "fresh", "old"}]
  /\ fixer \in [todo : SUBSET z.key, up : SUBSET z.key]
  /\ exiting \in BOOLEAN /\ exited \in BOOLEAN /\ keyLate \in BOOLEAN

\* The handler of ctrl-c has all keys of the table before it, but for those that threads put
\* there which had passed the test of EXITING.
ExitHasAll(z) == exiting /\ ~keyLate => Relay(z)!Present \subseteq fixer.todo

KeysInv(z) ==
  /\ KeyTypes(z) /\ Relay(z)!TypedAsMeant /\ Relay(z)!DownIsKnown
  /\ ExitHasAll(z) /\ Relay(z)!ExitReleases

\* At first no key is down and nothing is under way.
LEMMA KeysInit ==
  ASSUME NEW z, Relay(z)!Init
  PROVE  KeysInv(z)
<1> USE DEF Relay!Init, Relay!NoEvent, Relay!Idle
<1>1. KeyTypes(z)
  <2>1. wire \in [z.conn -> Seq(KeyEvents(z))] /\ keyInput \in [z.conn -> Seq(KeyEvents(z))]
    OBVIOUS
  <2> QED
    BY <2>1 DEF KeyTypes
<1> QED
  BY <1>1 DEF KeysInv, ExitHasAll, Relay!TypedAsMeant, Relay!DownIsKnown, Relay!ExitReleases

\* The hook makes an event of a key (remote.rs, key_down_or_up): it names a key and modifiers.
LEMMA HookSends ==
  ASSUME NEW z, KeysInv(z), NEW c \in z.conn, NEW k \in z.key, NEW d \in BOOLEAN, NEW S,
         Relay(z)!Hook(c, k, d, S)
  PROVE  wire' \in [z.conn -> Seq(KeyEvents(z))]
<1>1. Relay(z)!Event(c, k, d, S) \in KeyEvents(z)
  <2>1. Relay(z)!ModsIn(S) \ {k[1]} \in SUBSET z.mod
    BY DEF Relay!ModsIn
  <2>2. caps[c] \in BOOLEAN
    BY DEF KeysInv, KeyTypes
  <2> QED
    BY <2>1, <2>2 DEF Relay!Event, KeyEvents
<1> DEFINE e == Relay(z)!Event(c, k, d, S)
<1>2. e \in KeyEvents(z)
  BY <1>1
<1>3. wire' = [wire EXCEPT ![c] = Append(@, e)] \/ wire' = wire
  BY DEF Relay!Hook
<1> HIDE DEF e
<1>4. wire \in [z.conn -> Seq(KeyEvents(z))]
  BY DEF KeysInv, KeyTypes
<1>5. Append(wire[c], e) \in Seq(KeyEvents(z))
  BY <1>2, <1>4
<1> DEFINE q == Append(wire[c], e)
<1>6. wire' = [wire EXCEPT ![c] = q] \/ wire' = wire
  BY <1>3
<1> HIDE DEF q
<1> QED
  BY <1>4, <1>5, <1>6 DEF q

\* What the users and the connection manager do.
LEMMA KeysUserStep ==
  ASSUME NEW z, KeysInv(z), NEW c \in z.conn, Relay(z)!User(c) \/ Relay(z)!PermissionInfo(c)
  PROVE  KeysInv(z)'
<1>1. /\ wire' \in [z.conn -> Seq(KeyEvents(z))] /\ held' \in [z.conn -> SUBSET z.key] /\ caps' \in [z.conn -> BOOLEAN]
      /\ UNCHANGED <<keyInput, hand, keyDown, keysDown, exited, typed, keyLate, fixer, exiting>>
  <2>1. ASSUME NEW k \in z.key, Relay(z)!Press(c, k) \/ Relay(z)!Release(c, k)
        PROVE  /\ wire' \in [z.conn -> Seq(KeyEvents(z))] /\ held' \in [z.conn -> SUBSET z.key] /\ caps' \in [z.conn -> BOOLEAN]
               /\ UNCHANGED <<keyInput, hand, keyDown, keysDown, exited, typed, keyLate, fixer, exiting>>
    <3>1. wire' \in [z.conn -> Seq(KeyEvents(z))]
      BY <2>1, HookSends DEF Relay!Press, Relay!Release
    <3>2. held' \in [z.conn -> SUBSET z.key]
      <4>1. held \in [z.conn -> SUBSET z.key]
        BY DEF KeysInv, KeyTypes
      <4>2. held' = [held EXCEPT ![c] = @ \cup {k}] \/ held' = [held EXCEPT ![c] = @ \ {k}]
        BY <2>1 DEF Relay!Press, Relay!Release
      <4> QED
        BY <4>1, <4>2
    <3> QED
      BY <2>1, <3>1, <3>2 DEF Relay!Press, Relay!Release, Relay!machine, Relay!end, Relay!history, KeysInv, KeyTypes
  <2>2. CASE Relay(z)!Ends(c)
    BY <2>2 DEF Relay!Ends, Relay!sides, Relay!machine, Relay!end, Relay!history, KeysInv, KeyTypes
  <2>3. CASE Relay(z)!ToggleCaps(c) \/ Relay(z)!EnterOrLeave(c) \/ Relay(z)!SwitchKeyboard(c) \/ Relay(z)!PermissionInfo(c)
    BY <2>3 DEF Relay!ToggleCaps, Relay!EnterOrLeave, Relay!SwitchKeyboard, Relay!PermissionInfo,
      Relay!sides, Relay!conns, Relay!machine, Relay!end, Relay!history, KeysInv, KeyTypes
  <2>4. Relay(z)!Ends(c) \/ Relay(z)!ToggleCaps(c) \/ Relay(z)!EnterOrLeave(c) \/ Relay(z)!SwitchKeyboard(c)
          \/ Relay(z)!PermissionInfo(c) \/ \E k \in z.key : Relay(z)!Press(c, k) \/ Relay(z)!Release(c, k)
    BY DEF Relay!User
  <2> QED
    BY <2>1, <2>2, <2>3, <2>4
<1> QED
  BY <1>1 DEF KeysInv, KeyTypes, ExitHasAll, Relay!TypedAsMeant, Relay!DownIsKnown, Relay!ExitReleases,
    Relay!Present, Relay!NoEvent

\* An event goes on to the input thread, and the thread takes it in its hand.
LEMMA KeysMoveStep ==
  ASSUME NEW z, KeysInv(z), NEW c \in z.conn, Relay(z)!KeyEvent(c) \/ Relay(z)!Takes(c)
  PROVE  KeysInv(z)'
<1> USE DEF Relay!NoEvent
<1>0. KeyTypes(z)
  BY DEF KeysInv
<1>1. /\ wire' \in [z.conn -> Seq(KeyEvents(z))] /\ keyInput' \in [z.conn -> Seq(KeyEvents(z))]
      /\ hand' \in [z.conn -> KeyEvents(z) \cup {<<>>}]
      /\ UNCHANGED <<held, caps, keyDown, keysDown, fixer, exiting, exited, typed, keyLate>>
  <2>1. CASE Relay(z)!KeyEvent(c)
    <3>1. Head(wire[c]) \in KeyEvents(z) /\ Tail(wire[c]) \in Seq(KeyEvents(z))
      BY <1>0, <2>1, RestIsQueue DEF Relay!KeyEvent, KeyTypes
    <3> DEFINE e == Head(wire[c])
               p == z.linux /\ e.down /\ e.key \in Relay(z)!LetterKey
               f == [e EXCEPT !.press = p]
    <3>2. f \in KeyEvents(z)
      <4>1. p \in BOOLEAN
        OBVIOUS
      <4> HIDE DEF p
      <4> QED
        BY <3>1, <4>1 DEF KeyEvents
    <3>3. keyInput' = keyInput \/ keyInput' = [keyInput EXCEPT ![c] = Append(@, f)]
      BY <2>1 DEF Relay!KeyEvent
    <3> HIDE DEF f
    <3>6. Append(keyInput[c], f) \in Seq(KeyEvents(z))
      BY <1>0, <3>2 DEF KeyTypes
    <3>4. keyInput' \in [z.conn -> Seq(KeyEvents(z))]
      BY <1>0, <3>3, <3>6 DEF KeyTypes
    <3>5. wire' \in [z.conn -> Seq(KeyEvents(z))]
      BY <1>0, <2>1, <3>1 DEF Relay!KeyEvent, KeyTypes
    <3> QED
      BY <1>0, <2>1, <3>4, <3>5 DEF Relay!KeyEvent, Relay!sides, Relay!machine, Relay!end, Relay!history, KeyTypes
  <2>2. CASE Relay(z)!Takes(c)
    <3> DEFINE e == Head(keyInput[c])
               r == [e EXCEPT !.press = FALSE, !.down = FALSE]
               t == Tail(keyInput[c])
    <3>1. e \in KeyEvents(z) /\ t \in Seq(KeyEvents(z))
      BY <1>0, <2>2, RestIsQueue DEF Relay!Takes, KeyTypes
    <3>2. r \in KeyEvents(z)
      BY <3>1 DEF KeyEvents
    <3>3. keyInput' = [keyInput EXCEPT ![c] = <<r>> \o t] \/ keyInput' = [keyInput EXCEPT ![c] = t]
      BY <2>2 DEF Relay!Takes
    <3>4. hand' = hand \/ hand' = [hand EXCEPT ![c] = e]
      BY <2>2 DEF Relay!Takes
    <3> HIDE DEF e, r, t
    <3>5. <<r>> \o t \in Seq(KeyEvents(z))
      BY <3>1, <3>2
    <3>6. keyInput' \in [z.conn -> Seq(KeyEvents(z))] /\ hand' \in [z.conn -> KeyEvents(z) \cup {<<>>}]
      BY <1>0, <3>1, <3>3, <3>4, <3>5 DEF KeyTypes
    <3> QED
      BY <1>0, <2>2, <3>6 DEF Relay!Takes, Relay!sides, Relay!conns, Relay!machine, Relay!end, Relay!history, KeyTypes
  <2> QED
    BY <2>1, <2>2
<1> QED
  BY <1>1 DEF KeysInv, KeyTypes, ExitHasAll, Relay!TypedAsMeant, Relay!DownIsKnown, Relay!ExitReleases,
    Relay!Present

\* What is down when fix_modifiers is done: of the modifiers, those that are meant, and on Windows
\* control where alt is.
LEMMA FixedMods ==
  ASSUME NEW z, Relay(z)!KeyAssumption, NEW S \in SUBSET z.key, NEW e \in KeyEvents(z),
         e.key \in Relay(z)!LetterKey
  PROVE  /\ Relay(z)!FixModifiers(e, S) \subseteq S
         /\ \A m \in Relay(z)!ModsIn(Relay(z)!FixModifiers(e, S)) :
              m \in e.mods \/ (z.windows /\ m = "control" /\ "alt" \in e.mods)
<1> DEFINE A == {k \in Relay(z)!ModKey : k[1] = "alt" /\ k # e.key /\ "alt" \notin e.mods}
           T == S \ A
           B == {k \in Relay(z)!ModKey : k # e.key /\ k[1] \notin e.mods /\ ~Relay(z)!AltGr(k[1], T)}
<1>1. Relay(z)!FixModifiers(e, S) = T \ B
  BY DEF Relay!FixModifiers
<1>2. \A m \in z.mod, k \in S : k \in {Relay(z)!Left(m), Relay(z)!Right(m)} =>
        k \in Relay(z)!ModKey /\ k[1] = m /\ k # e.key
  BY DEF Relay!Left, Relay!Right, Relay!ModKey, Relay!LetterKey
<1>3. "alt" \in Relay(z)!ModsIn(T) => "alt" \in e.mods
  BY <1>2 DEF Relay!ModsIn
<1>4. ASSUME NEW m \in Relay(z)!ModsIn(T \ B), m \notin e.mods
      PROVE  z.windows /\ m = "control" /\ "alt" \in e.mods
  <2>1. PICK k \in T \ B : k \in {Relay(z)!Left(m), Relay(z)!Right(m)}
    BY <1>4 DEF Relay!ModsIn
  <2>2. m \in z.mod
    BY <1>4 DEF Relay!ModsIn
  <2>3. k \in Relay(z)!ModKey /\ k[1] = m /\ k # e.key
    BY <1>2, <2>1, <2>2
  <2>4. Relay(z)!AltGr(m, T)
    BY <1>4, <2>1, <2>3
  <2> QED
    BY <1>3, <2>4 DEF Relay!AltGr
<1> QED
  BY <1>1, <1>4

\* A letter is pressed with the modifiers that are meant.
LEMMA PressedAsMeant ==
  ASSUME NEW z, Relay(z)!KeyAssumption, KeyTypes(z), NEW e \in KeyEvents(z), e.key \in Relay(z)!LetterKey,
         NEW F, F = Relay(z)!FixModifiers(e, keyDown),
         NEW P, P = {Relay(z)!Left(m) : m \in e.mods \ (Relay(z)!ModsIn(F) \cup Relay(z)!RightAlt)},
         NEW M, M = Relay(z)!ModsIn(F \cup P)
  PROVE  \/ M = e.mods
         \/ z.linux /\ e.mods = M \cup {"alt"}
         \/ z.windows /\ "alt" \in e.mods /\ M \ e.mods = {"control"} /\ e.mods \subseteq M
<1>1. F \subseteq keyDown /\ \A m \in Relay(z)!ModsIn(F) : m \in e.mods \/ (z.windows /\ m = "control" /\ "alt" \in e.mods)
  BY FixedMods DEF KeyTypes
<1>2. e.mods \subseteq z.mod
  BY DEF KeyEvents
<1>3. M = Relay(z)!ModsIn(F) \cup (e.mods \ Relay(z)!RightAlt)
  BY <1>2 DEF Relay!ModsIn, Relay!Left, Relay!Right
<1>4. Relay(z)!RightAlt \subseteq {"alt"} /\ (~z.linux => Relay(z)!RightAlt = {})
  BY DEF Relay!RightAlt
<1>5. z.linux \in BOOLEAN /\ z.windows \in BOOLEAN /\ ~(z.linux /\ z.windows)
  BY DEF Relay!KeyAssumption
<1> QED
  BY <1>1, <1>3, <1>4, <1>5

\* An event is injected.
LEMMA HandleKeyStep ==
  ASSUME NEW z, Relay(z)!KeyAssumption, KeysInv(z), NEW c \in z.conn, ~exited, Relay(z)!HandleKey(c)
  PROVE  KeysInv(z)'
<1>0. KeyTypes(z)
  BY DEF KeysInv
<1> DEFINE e == hand[c]
           F == IF e.down THEN Relay(z)!FixModifiers(e, keyDown) ELSE keyDown
           P == IF e.down THEN {Relay(z)!Left(m) : m \in e.mods \ (Relay(z)!ModsIn(F) \cup Relay(z)!RightAlt)} ELSE {}
<1>1. e \in KeyEvents(z)
  BY <1>0 DEF Relay!HandleKey, Relay!NoEvent, KeyTypes
<1>2. /\ hand' = [hand EXCEPT ![c] = <<>>]
      /\ keyDown' = (IF e.down THEN F \cup {e.key} ELSE F \ {e.key}) \ P
      /\ keysDown' = [keysDown EXCEPT ![e.key] = IF e.down THEN "fresh" ELSE "absent"]
      /\ capsHere' = (e.down /\ e.caps)
      /\ typed' = IF e.down /\ e.key \in Relay(z)!LetterKey
                  THEN [meant |-> e.mods, caps |-> e.caps, mods |-> Relay(z)!ModsIn(F \cup P), capsHere |-> capsHere']
                  ELSE typed
      /\ keyLate' = (keyLate \/ exiting)
      /\ UNCHANGED <<held, caps, wire, keyInput, fixer, exiting, exited>>
  BY DEF Relay!HandleKey, Relay!NoEvent, Relay!Lift, Relay!Noted, Relay!sides, Relay!conns, Relay!end
<1>3. F \subseteq keyDown
  BY DEF Relay!FixModifiers
<1>4. e.down /\ e.key \in Relay(z)!LetterKey =>
        \/ Relay(z)!ModsIn(F \cup P) = e.mods
        \/ z.linux /\ e.mods = Relay(z)!ModsIn(F \cup P) \cup {"alt"}
        \/ z.windows /\ "alt" \in e.mods /\ Relay(z)!ModsIn(F \cup P) \ e.mods = {"control"} /\ e.mods \subseteq Relay(z)!ModsIn(F \cup P)
  <2> SUFFICES ASSUME e.down, e.key \in Relay(z)!LetterKey
               PROVE  \/ Relay(z)!ModsIn(F \cup P) = e.mods
                      \/ z.linux /\ e.mods = Relay(z)!ModsIn(F \cup P) \cup {"alt"}
                      \/ z.windows /\ "alt" \in e.mods /\ Relay(z)!ModsIn(F \cup P) \ e.mods = {"control"} /\ e.mods \subseteq Relay(z)!ModsIn(F \cup P)
    OBVIOUS
  <2>1. F = Relay(z)!FixModifiers(e, keyDown)
    OBVIOUS
  <2>2. P = {Relay(z)!Left(m) : m \in e.mods \ (Relay(z)!ModsIn(F) \cup Relay(z)!RightAlt)}
    OBVIOUS
  <2> HIDE DEF F, P
  <2>3. e \in KeyEvents(z) /\ e.key \in Relay(z)!LetterKey
    BY <1>1
  <2> HIDE DEF e
  <2> QED
    BY <1>0, <2>1, <2>2, <2>3, PressedAsMeant
<1> HIDE DEF F, P
<1>5. e.key \in z.key /\ e.down \in BOOLEAN /\ e.caps \in BOOLEAN
  BY <1>1 DEF KeyEvents
<1>6. KeyTypes(z)'
  <2>1. hand' \in [z.conn -> KeyEvents(z) \cup {<<>>}]
    BY <1>0, <1>2 DEF KeyTypes
  <2>2. keyDown' \subseteq z.key /\ keysDown' \in [z.key -> {"absent", "fresh", "old"}]
    BY <1>0, <1>2, <1>3, <1>5 DEF KeyTypes
  <2> QED
    BY <1>0, <1>2, <2>1, <2>2 DEF KeyTypes, KeyEvents
<1>7. Relay(z)!TypedAsMeant'
  <2>1. CASE e.down /\ e.key \in Relay(z)!LetterKey
    <3> DEFINE M == Relay(z)!ModsIn(F \cup P)
    <3>1. typed' = [meant |-> e.mods, caps |-> e.caps, mods |-> M, capsHere |-> capsHere'] /\ capsHere' = e.caps
      BY <1>2, <1>5, <2>1
    <3>2. \/ M = e.mods
          \/ z.linux /\ e.mods = M \cup {"alt"}
          \/ z.windows /\ "alt" \in e.mods /\ M \ e.mods = {"control"} /\ e.mods \subseteq M
      BY <1>4, <2>1
    <3> HIDE DEF M
    <3> QED
      BY <3>1, <3>2 DEF Relay!TypedAsMeant
  <2>2. CASE ~(e.down /\ e.key \in Relay(z)!LetterKey)
    BY <1>2, <2>2 DEF KeysInv, Relay!TypedAsMeant, Relay!NoEvent
  <2> QED
    BY <2>1, <2>2
<1>8. Relay(z)!DownIsKnown'
  BY <1>0, <1>2, <1>3, <1>5 DEF KeysInv, KeyTypes, Relay!DownIsKnown, Relay!Present
<1>9. ExitHasAll(z)'
  <2>1. keyLate' \/ ~exiting'
    BY <1>0, <1>2 DEF KeyTypes
  <2> QED
    BY <2>1 DEF ExitHasAll
<1>10. Relay(z)!ExitReleases'
  BY <1>2 DEF Relay!ExitReleases
<1> QED
  BY <1>6, <1>7, <1>8, <1>9, <1>10 DEF KeysInv

\* A key grows old, the loop and the handler of ctrl-c release what they found in the table
\* (input_service.rs, fix_key_down_timeout, fix_key_down_timeout_at_exit).
LEMMA FixerStep ==
  ASSUME NEW z, KeysInv(z), ~exited,
         \/ Relay(z)!FixLooks \/ Relay(z)!Fixes \/ Relay(z)!ExitStarts
         \/ \E k \in z.key : Relay(z)!Ages(k)
  PROVE  KeysInv(z)'
<1> USE DEF Relay!Present, Relay!Idle
<1>0. KeyTypes(z)
  BY DEF KeysInv
<1>1. ASSUME NEW k \in z.key, Relay(z)!Ages(k) PROVE KeysInv(z)'
  <2>1. /\ keysDown[k] = "fresh" /\ keysDown' = [keysDown EXCEPT ![k] = "old"]
        /\ UNCHANGED <<held, caps, wire, keyInput, hand, keyDown, fixer, exiting, exited, typed, keyLate>>
    BY <1>1 DEF Relay!Ages, Relay!sides, Relay!conns, Relay!end, Relay!history
  <2>2. Relay(z)!Present' = Relay(z)!Present
    BY <1>0, <2>1 DEF KeyTypes
  <2>3. KeyTypes(z)'
    BY <1>0, <2>1 DEF KeyTypes
  <2> HIDE DEF Relay!Present
  <2> QED
    BY <2>1, <2>2, <2>3 DEF KeysInv, ExitHasAll, Relay!TypedAsMeant, Relay!DownIsKnown, Relay!ExitReleases, Relay!NoEvent
<1>2. CASE Relay(z)!FixLooks
  BY <1>2 DEF KeysInv, KeyTypes, ExitHasAll, Relay!FixLooks, Relay!TypedAsMeant, Relay!DownIsKnown, Relay!ExitReleases,
    Relay!NoEvent, Relay!sides, Relay!conns, Relay!machine, Relay!end, Relay!history
<1>3. CASE Relay(z)!FixRemoves
  <2>1. PICK k \in fixer.todo :
          /\ fixer.up = {} /\ fixer' = [fixer EXCEPT !.todo = @ \ {k}, !.up = {k}]
          /\ keysDown' = [keysDown EXCEPT ![k] = "absent"]
          /\ UNCHANGED <<held, caps, wire, keyInput, hand, keyDown, exiting, exited, typed, keyLate>>
    BY <1>3 DEF Relay!FixRemoves, Relay!sides, Relay!conns, Relay!end
  <2>2. k \in z.key
    BY <1>0 DEF KeyTypes
  <2>3. fixer'.todo = fixer.todo \ {k} /\ fixer'.up = {k} /\ fixer' \in [todo : SUBSET z.key, up : SUBSET z.key]
    BY <1>0, <2>1, <2>2 DEF KeyTypes
  <2>4. KeyTypes(z)'
    BY <1>0, <2>1, <2>3 DEF KeyTypes
  <2>5. Relay(z)!Present' = Relay(z)!Present \ {k}
    BY <1>0, <2>1, <2>2 DEF KeyTypes
  <2> HIDE DEF Relay!Present
  <2> QED
    BY <2>1, <2>3, <2>4, <2>5 DEF KeysInv, ExitHasAll, Relay!TypedAsMeant, Relay!DownIsKnown, Relay!ExitReleases,
      Relay!NoEvent
<1>4. CASE Relay(z)!FixReleases
  BY <1>4 DEF KeysInv, KeyTypes, ExitHasAll, Relay!FixReleases, Relay!TypedAsMeant, Relay!DownIsKnown, Relay!ExitReleases,
    Relay!NoEvent, Relay!sides, Relay!conns, Relay!end
<1>5. CASE Relay(z)!ExitStarts
  BY <1>5 DEF KeysInv, KeyTypes, ExitHasAll, Relay!ExitStarts, Relay!TypedAsMeant, Relay!DownIsKnown, Relay!ExitReleases,
    Relay!NoEvent, Relay!sides, Relay!conns, Relay!machine, Relay!history
<1>6. CASE Relay(z)!ExitEnds
  BY <1>6 DEF KeysInv, KeyTypes, ExitHasAll, Relay!ExitEnds, Relay!TypedAsMeant, Relay!DownIsKnown, Relay!ExitReleases,
    Relay!NoEvent, Relay!sides, Relay!conns, Relay!machine, Relay!history
<1> QED
  BY <1>1, <1>2, <1>3, <1>4, <1>5, <1>6 DEF Relay!Fixes

\* Every step of the keys, whatever the setting, keeps what holds of them.
LEMMA KeysStep ==
  ASSUME NEW z, Relay(z)!KeyAssumption, KeysInv(z), [Relay(z)!Next]_keysVars
  PROVE  KeysInv(z)'
<1>1. CASE UNCHANGED keysVars
  BY <1>1 DEF keysVars, KeysInv, KeyTypes, ExitHasAll, Relay!TypedAsMeant, Relay!DownIsKnown, Relay!ExitReleases,
    Relay!NoEvent, Relay!Present
<1>2. CASE Relay(z)!Next
  BY <1>2, KeysUserStep, KeysMoveStep, HandleKeyStep, FixerStep DEF Relay!Next, Relay!Injects
<1> QED
  BY <1>1, <1>2

-----------------------------------------------------------------------------
(* The three settings of MCHost.                                           *)

LetterShift == [conn |-> 1 .. Bound(2, 1), mod |-> {"shift"}, key |-> {<<"shift", "left">>, <<"a", "letter">>},
  linux |-> FALSE, windows |-> FALSE, events |-> 3, room |-> 1]
LetterAltGr == [conn |-> {1}, mod |-> {"alt", "control"},
  key |-> {<<"alt", "right">>, <<"control", "left">>, <<"a", "letter">>},
  linux |-> FALSE, windows |-> TRUE, events |-> 3, room |-> 1]
LetterLinux == [LetterAltGr EXCEPT !.linux = TRUE, !.windows = FALSE]

\* The part of the letters with shift is the setting LetterShift: every step of the one is a step
\* of the other, and so is what they promise.
LEMMA KeysAre ==
  /\ Keys!Init => Relay(LetterShift)!Init
  /\ Keys!Next => Relay(LetterShift)!Next
  /\ Relay(LetterShift)!TypeOK => Keys!TypeOK
  /\ Relay(LetterShift)!TypedAsMeant => Keys!TypedAsMeant
  /\ Relay(LetterShift)!DownIsKnown => Keys!DownIsKnown
  /\ Relay(LetterShift)!ExitReleases => Keys!ExitReleases
<1> DEFINE z == LetterShift
<1>0. /\ z.conn = 1 .. Bound(2, 1) /\ z.mod = {"shift"} /\ z.key = {<<"shift", "left">>, <<"a", "letter">>}
      /\ z.linux = FALSE /\ z.windows = FALSE /\ z.events = 3 /\ z.room = 1
  BY DEF LetterShift
<1> HIDE DEF z
<1>1. Keys!Init => Relay(z)!Init
  BY <1>0 DEF Keys!Init, Relay!Init, Keys!NoEvent, Relay!NoEvent, Keys!Idle, Relay!Idle
<1>2. Keys!Next => Relay(z)!Next
  <2>1. /\ Keys!ModKey = Relay(z)!ModKey /\ Keys!LetterKey = Relay(z)!LetterKey /\ Keys!Present = Relay(z)!Present
        /\ Keys!RightAlt = Relay(z)!RightAlt /\ \A S : Keys!ModsIn(S) = Relay(z)!ModsIn(S)
    BY <1>0 DEF Keys!ModKey, Relay!ModKey, Keys!LetterKey, Relay!LetterKey, Keys!Present, Relay!Present,
      Keys!RightAlt, Relay!RightAlt, Keys!ModsIn, Relay!ModsIn, Keys!Left, Keys!Right, Relay!Left, Relay!Right
  <2>2. \A e, S : Keys!FixModifiers(e, S) = Relay(z)!FixModifiers(e, S)
    BY <1>0, <2>1 DEF Keys!FixModifiers, Relay!FixModifiers, Keys!AltGr, Relay!AltGr
  <2> USE DEF Keys!NoEvent, Relay!NoEvent, Keys!Idle, Relay!Idle, Keys!Acts, Relay!Acts,
     Keys!sides, Keys!conns, Keys!machine, Keys!end, Keys!history,
     Relay!sides, Relay!conns, Relay!machine, Relay!end, Relay!history
  <2>3. ASSUME NEW c \in z.conn, Keys!ToggleCaps(c) \/ Keys!EnterOrLeave(c) \/ Keys!SwitchKeyboard(c) \/ Keys!Ends(c)
                                 \/ Keys!PermissionInfo(c)
        PROVE  Relay(z)!ToggleCaps(c) \/ Relay(z)!EnterOrLeave(c) \/ Relay(z)!SwitchKeyboard(c) \/ Relay(z)!Ends(c)
                 \/ Relay(z)!PermissionInfo(c)
    BY <1>0, <2>3 DEF Keys!ToggleCaps, Keys!EnterOrLeave, Keys!SwitchKeyboard, Keys!Ends, Keys!PermissionInfo,
      Relay!ToggleCaps, Relay!EnterOrLeave, Relay!SwitchKeyboard, Relay!Ends, Relay!PermissionInfo
  <2>4. ASSUME NEW c \in z.conn, NEW k \in z.key, Keys!Press(c, k) \/ Keys!Release(c, k)
        PROVE  Relay(z)!Press(c, k) \/ Relay(z)!Release(c, k)
    BY <1>0, <2>1, <2>4 DEF Keys!Press, Keys!Release, Relay!Press, Relay!Release, Keys!Hook, Relay!Hook, Keys!Event,
      Relay!Event
  <2>5. ASSUME NEW c \in z.conn, Keys!KeyEvent(c) PROVE Relay(z)!KeyEvent(c)
    BY <1>0, <2>1, <2>5 DEF Keys!KeyEvent, Relay!KeyEvent
  <2>6. ASSUME NEW c \in z.conn, Keys!Takes(c) PROVE Relay(z)!Takes(c)
    BY <1>0, <2>6 DEF Keys!Takes, Relay!Takes
  <2>7. ASSUME NEW c \in z.conn, Keys!HandleKey(c) PROVE Relay(z)!HandleKey(c)
    BY <1>0, <2>1, <2>2, <2>7 DEF Keys!HandleKey, Relay!HandleKey, Keys!Lift, Relay!Lift, Keys!Noted, Relay!Noted,
      Keys!Left, Relay!Left
  <2>8. /\ (\E k \in z.key : Keys!Ages(k)) => \E k \in z.key : Relay(z)!Ages(k)
        /\ Keys!FixLooks => Relay(z)!FixLooks
        /\ Keys!Fixes => Relay(z)!Fixes
        /\ Keys!ExitStarts => Relay(z)!ExitStarts
    BY <1>0, <2>1 DEF Keys!Ages, Relay!Ages, Keys!FixLooks, Relay!FixLooks, Keys!Fixes, Relay!Fixes, Keys!FixRemoves,
      Relay!FixRemoves, Keys!FixReleases, Relay!FixReleases, Keys!ExitEnds, Relay!ExitEnds, Keys!ExitStarts, Relay!ExitStarts
  <2> QED
    BY <1>0, <2>3, <2>4, <2>5, <2>6, <2>7, <2>8 DEF Keys!Next, Relay!Next, Keys!User, Relay!User, Keys!Injects, Relay!Injects
<1>3. Relay(z)!TypeOK => Keys!TypeOK
  BY <1>0 DEF Keys!TypeOK, Relay!TypeOK, Keys!NoEvent, Relay!NoEvent
<1>4. /\ Relay(z)!TypedAsMeant => Keys!TypedAsMeant
      /\ Relay(z)!DownIsKnown => Keys!DownIsKnown
      /\ Relay(z)!ExitReleases => Keys!ExitReleases
  BY <1>0 DEF Keys!TypedAsMeant, Relay!TypedAsMeant, Keys!DownIsKnown, Relay!DownIsKnown, Keys!ExitReleases,
    Relay!ExitReleases,
    Keys!NoEvent, Relay!NoEvent, Keys!Present, Relay!Present
<1> QED
  BY <1>1, <1>2, <1>3, <1>4 DEF z

\* The part with alt and control on Windows is the setting LetterAltGr.
LEMMA AltGrAre ==
  /\ AltGr!Init => Relay(LetterAltGr)!Init
  /\ AltGr!Next => Relay(LetterAltGr)!Next
  /\ Relay(LetterAltGr)!TypeOK => AltGr!TypeOK
  /\ Relay(LetterAltGr)!TypedAsMeant => AltGr!TypedAsMeant
<1> DEFINE z == LetterAltGr
<1>0. /\ z.conn = {1} /\ z.mod = {"alt", "control"}
      /\ z.key = {<<"alt", "right">>, <<"control", "left">>, <<"a", "letter">>}
      /\ z.linux = FALSE /\ z.windows = TRUE /\ z.events = 3 /\ z.room = 1
  BY DEF LetterAltGr
<1> HIDE DEF z
<1>1. AltGr!Init => Relay(z)!Init
  BY <1>0 DEF AltGr!Init, Relay!Init, AltGr!NoEvent, Relay!NoEvent, AltGr!Idle, Relay!Idle
<1>2. AltGr!Next => Relay(z)!Next
  <2>1. /\ AltGr!ModKey = Relay(z)!ModKey /\ AltGr!LetterKey = Relay(z)!LetterKey /\ AltGr!Present = Relay(z)!Present
        /\ AltGr!RightAlt = Relay(z)!RightAlt /\ \A S : AltGr!ModsIn(S) = Relay(z)!ModsIn(S)
    BY <1>0 DEF AltGr!ModKey, Relay!ModKey, AltGr!LetterKey, Relay!LetterKey, AltGr!Present, Relay!Present,
      AltGr!RightAlt, Relay!RightAlt, AltGr!ModsIn, Relay!ModsIn, AltGr!Left, AltGr!Right, Relay!Left, Relay!Right
  <2>2. \A e, S : AltGr!FixModifiers(e, S) = Relay(z)!FixModifiers(e, S)
    BY <1>0, <2>1 DEF AltGr!FixModifiers, Relay!FixModifiers, AltGr!AltGr, Relay!AltGr
  <2> USE DEF AltGr!NoEvent, Relay!NoEvent, AltGr!Idle, Relay!Idle, AltGr!Acts, Relay!Acts,
     AltGr!sides, AltGr!conns, AltGr!machine, AltGr!end, AltGr!history,
     Relay!sides, Relay!conns, Relay!machine, Relay!end, Relay!history
  <2>3. ASSUME NEW c \in z.conn, AltGr!ToggleCaps(c) \/ AltGr!EnterOrLeave(c) \/ AltGr!SwitchKeyboard(c) \/ AltGr!Ends(c)
                                 \/ AltGr!PermissionInfo(c)
        PROVE  Relay(z)!ToggleCaps(c) \/ Relay(z)!EnterOrLeave(c) \/ Relay(z)!SwitchKeyboard(c) \/ Relay(z)!Ends(c)
                 \/ Relay(z)!PermissionInfo(c)
    BY <1>0, <2>3 DEF AltGr!ToggleCaps, AltGr!EnterOrLeave, AltGr!SwitchKeyboard, AltGr!Ends, AltGr!PermissionInfo,
      Relay!ToggleCaps, Relay!EnterOrLeave, Relay!SwitchKeyboard, Relay!Ends, Relay!PermissionInfo
  <2>4. ASSUME NEW c \in z.conn, NEW k \in z.key, AltGr!Press(c, k) \/ AltGr!Release(c, k)
        PROVE  Relay(z)!Press(c, k) \/ Relay(z)!Release(c, k)
    BY <1>0, <2>1, <2>4 DEF AltGr!Press, AltGr!Release, Relay!Press, Relay!Release, AltGr!Hook, Relay!Hook, AltGr!Event,
      Relay!Event
  <2>5. ASSUME NEW c \in z.conn, AltGr!KeyEvent(c) PROVE Relay(z)!KeyEvent(c)
    BY <1>0, <2>1, <2>5 DEF AltGr!KeyEvent, Relay!KeyEvent
  <2>6. ASSUME NEW c \in z.conn, AltGr!Takes(c) PROVE Relay(z)!Takes(c)
    BY <1>0, <2>6 DEF AltGr!Takes, Relay!Takes
  <2>7. ASSUME NEW c \in z.conn, AltGr!HandleKey(c) PROVE Relay(z)!HandleKey(c)
    BY <1>0, <2>1, <2>2, <2>7 DEF AltGr!HandleKey, Relay!HandleKey, AltGr!Lift, Relay!Lift, AltGr!Noted, Relay!Noted,
      AltGr!Left, Relay!Left
  <2>8. /\ (\E k \in z.key : AltGr!Ages(k)) => \E k \in z.key : Relay(z)!Ages(k)
        /\ AltGr!FixLooks => Relay(z)!FixLooks
        /\ AltGr!Fixes => Relay(z)!Fixes
        /\ AltGr!ExitStarts => Relay(z)!ExitStarts
    BY <1>0, <2>1 DEF AltGr!Ages, Relay!Ages, AltGr!FixLooks, Relay!FixLooks, AltGr!Fixes, Relay!Fixes, AltGr!FixRemoves,
      Relay!FixRemoves, AltGr!FixReleases, Relay!FixReleases, AltGr!ExitEnds, Relay!ExitEnds, AltGr!ExitStarts, Relay!ExitStarts
  <2> QED
    BY <1>0, <2>3, <2>4, <2>5, <2>6, <2>7, <2>8 DEF AltGr!Next, Relay!Next, AltGr!User, Relay!User, AltGr!Injects,
      Relay!Injects
<1>3. Relay(z)!TypeOK => AltGr!TypeOK
  BY <1>0 DEF AltGr!TypeOK, Relay!TypeOK, AltGr!NoEvent, Relay!NoEvent
<1>4. Relay(z)!TypedAsMeant => AltGr!TypedAsMeant
  BY <1>0 DEF AltGr!TypedAsMeant, Relay!TypedAsMeant,
    AltGr!NoEvent, Relay!NoEvent
<1> QED
  BY <1>1, <1>2, <1>3, <1>4 DEF z

\* The part with alt and control on Linux is the setting LetterLinux.
LEMMA OnLinuxAre ==
  /\ OnLinux!Init => Relay(LetterLinux)!Init
  /\ OnLinux!Next => Relay(LetterLinux)!Next
  /\ Relay(LetterLinux)!TypedAsMeant => OnLinux!TypedAsMeant
<1> DEFINE z == LetterLinux
<1>0. /\ z.conn = {1} /\ z.mod = {"alt", "control"}
      /\ z.key = {<<"alt", "right">>, <<"control", "left">>, <<"a", "letter">>}
      /\ z.linux = TRUE /\ z.windows = FALSE /\ z.events = 3 /\ z.room = 1
  BY DEF LetterLinux, LetterAltGr
<1> HIDE DEF z
<1>1. OnLinux!Init => Relay(z)!Init
  BY <1>0 DEF OnLinux!Init, Relay!Init, OnLinux!NoEvent, Relay!NoEvent, OnLinux!Idle, Relay!Idle
<1>2. OnLinux!Next => Relay(z)!Next
  <2>1. /\ OnLinux!ModKey = Relay(z)!ModKey /\ OnLinux!LetterKey = Relay(z)!LetterKey /\ OnLinux!Present = Relay(z)!Present
        /\ OnLinux!RightAlt = Relay(z)!RightAlt /\ \A S : OnLinux!ModsIn(S) = Relay(z)!ModsIn(S)
    BY <1>0 DEF OnLinux!ModKey, Relay!ModKey, OnLinux!LetterKey, Relay!LetterKey, OnLinux!Present, Relay!Present,
      OnLinux!RightAlt, Relay!RightAlt, OnLinux!ModsIn, Relay!ModsIn, OnLinux!Left, OnLinux!Right, Relay!Left, Relay!Right
  <2>2. \A e, S : OnLinux!FixModifiers(e, S) = Relay(z)!FixModifiers(e, S)
    BY <1>0, <2>1 DEF OnLinux!FixModifiers, Relay!FixModifiers, OnLinux!AltGr, Relay!AltGr
  <2> USE DEF OnLinux!NoEvent, Relay!NoEvent, OnLinux!Idle, Relay!Idle, OnLinux!Acts, Relay!Acts,
     OnLinux!sides, OnLinux!conns, OnLinux!machine, OnLinux!end, OnLinux!history,
     Relay!sides, Relay!conns, Relay!machine, Relay!end, Relay!history
  <2>3. ASSUME NEW c \in z.conn, OnLinux!ToggleCaps(c) \/ OnLinux!EnterOrLeave(c) \/ OnLinux!SwitchKeyboard(c) \/ OnLinux!Ends(c)
                                 \/ OnLinux!PermissionInfo(c)
        PROVE  Relay(z)!ToggleCaps(c) \/ Relay(z)!EnterOrLeave(c) \/ Relay(z)!SwitchKeyboard(c) \/ Relay(z)!Ends(c)
                 \/ Relay(z)!PermissionInfo(c)
    BY <1>0, <2>3 DEF OnLinux!ToggleCaps, OnLinux!EnterOrLeave, OnLinux!SwitchKeyboard, OnLinux!Ends, OnLinux!PermissionInfo,
      Relay!ToggleCaps, Relay!EnterOrLeave, Relay!SwitchKeyboard, Relay!Ends, Relay!PermissionInfo
  <2>4. ASSUME NEW c \in z.conn, NEW k \in z.key, OnLinux!Press(c, k) \/ OnLinux!Release(c, k)
        PROVE  Relay(z)!Press(c, k) \/ Relay(z)!Release(c, k)
    BY <1>0, <2>1, <2>4 DEF OnLinux!Press, OnLinux!Release, Relay!Press, Relay!Release, OnLinux!Hook, Relay!Hook,
      OnLinux!Event, Relay!Event
  <2>5. ASSUME NEW c \in z.conn, OnLinux!KeyEvent(c) PROVE Relay(z)!KeyEvent(c)
    BY <1>0, <2>1, <2>5 DEF OnLinux!KeyEvent, Relay!KeyEvent
  <2>6. ASSUME NEW c \in z.conn, OnLinux!Takes(c) PROVE Relay(z)!Takes(c)
    BY <1>0, <2>6 DEF OnLinux!Takes, Relay!Takes
  <2>7. ASSUME NEW c \in z.conn, OnLinux!HandleKey(c) PROVE Relay(z)!HandleKey(c)
    BY <1>0, <2>1, <2>2, <2>7 DEF OnLinux!HandleKey, Relay!HandleKey, OnLinux!Lift, Relay!Lift, OnLinux!Noted, Relay!Noted,
      OnLinux!Left, Relay!Left
  <2>8. /\ (\E k \in z.key : OnLinux!Ages(k)) => \E k \in z.key : Relay(z)!Ages(k)
        /\ OnLinux!FixLooks => Relay(z)!FixLooks
        /\ OnLinux!Fixes => Relay(z)!Fixes
        /\ OnLinux!ExitStarts => Relay(z)!ExitStarts
    BY <1>0, <2>1 DEF OnLinux!Ages, Relay!Ages, OnLinux!FixLooks, Relay!FixLooks, OnLinux!Fixes, Relay!Fixes,
      OnLinux!FixRemoves,
      Relay!FixRemoves, OnLinux!FixReleases, Relay!FixReleases, OnLinux!ExitEnds, Relay!ExitEnds, OnLinux!ExitStarts, Relay!ExitStarts
  <2> QED
    BY <1>0, <2>3, <2>4, <2>5, <2>6, <2>7, <2>8 DEF OnLinux!Next, Relay!Next, OnLinux!User, Relay!User, OnLinux!Injects,
      Relay!Injects
<1>3. Relay(z)!TypedAsMeant => OnLinux!TypedAsMeant
  BY <1>0 DEF OnLinux!TypedAsMeant, Relay!TypedAsMeant,
    OnLinux!NoEvent, Relay!NoEvent
<1> QED
  BY <1>1, <1>2, <1>3 DEF z

-----------------------------------------------------------------------------
(* The blocked input and the dark screen (Windows): for every setting z of *)
(* the connections and of the bounds.                                      *)

Asked(z) == INSTANCE InputModes WITH
  Conn <- z.conn, MaxAsks <- z.asks, MaxSwitches <- z.switches, MaxBreaks <- z.breaks,
  q <- modesQ, input <- modesInput, last <- modesLast, told <- modesTold,
  refused <- modesRefused, budget <- modesBudget

Wishes == {"PrivacyOn", "PrivacyOff"}

\* What is wanted is the last wish of the requests s, or else of those that the blank thread
\* has before it, b, or else what it did, d.
Follows(s, b, d, wanted) ==
  /\ \A i \in 1 .. Len(s) : s[i] \in Wishes /\ (\A j \in i + 1 .. Len(s) : s[j] \notin Wishes) =>
       (s[i] = "PrivacyOn") = wanted
  /\ (\A i \in 1 .. Len(s) : s[i] \notin Wishes) =>
       IF b = <<>> THEN d = wanted ELSE (b[Len(b)] = "PrivacyOn") = wanted

\* A request that is no wish changes nothing, and a wish is what is wanted.
LEMMA FollowsAppend ==
  ASSUME NEW S, NEW s \in Seq(S), NEW r \in S, NEW b, NEW d, NEW v, NEW w,
         IF r \in Wishes THEN w = (r = "PrivacyOn") ELSE w = v /\ Follows(s, b, d, v)
  PROVE  Follows(Append(s, r), b, d, w)
<1> DEFINE t == Append(s, r)
<1>1. Len(t) = Len(s) + 1 /\ Len(s) \in Nat /\ t[Len(s) + 1] = r /\ \A i \in 1 .. Len(s) : t[i] = s[i]
  OBVIOUS
<1> HIDE DEF t
<1>2. CASE r \in Wishes
  <2>1. ASSUME NEW i \in 1 .. Len(t), \A j \in i + 1 .. Len(t) : t[j] \notin Wishes
        PROVE  i = Len(s) + 1
    BY <1>1, <1>2, <2>1
  <2> QED
    BY <1>1, <1>2, <2>1 DEF Follows
<1>3. CASE r \notin Wishes
  <2>0. Follows(s, b, d, v) /\ w = v
    BY <1>3
  <2>1. ASSUME NEW i \in 1 .. Len(t), t[i] \in Wishes, \A j \in i + 1 .. Len(t) : t[j] \notin Wishes
        PROVE  (t[i] = "PrivacyOn") = v
    <3>1. i \in 1 .. Len(s)
      BY <1>1, <1>3, <2>1
    <3>2. \A j \in i + 1 .. Len(s) : s[j] \notin Wishes
      BY <1>1, <2>1, <3>1
    <3> QED
      BY <1>1, <2>0, <2>1, <3>1, <3>2 DEF Follows
  <2>2. ASSUME \A i \in 1 .. Len(t) : t[i] \notin Wishes
        PROVE  \A i \in 1 .. Len(s) : s[i] \notin Wishes
    BY <1>1, <2>2
  <2> QED
    BY <2>0, <2>1, <2>2 DEF Follows
<1> QED
  BY <1>2, <1>3 DEF t

\* The input thread passes a wish on to the blank thread and drops the rest.
LEMMA FollowsTail ==
  ASSUME NEW S, NEW s \in Seq(S), s # <<>>, NEW b \in Seq(S), NEW d, NEW v, Follows(s, b, d, v)
  PROVE  Follows(Tail(s), IF Head(s) \in Wishes THEN Append(b, Head(s)) ELSE b, d, v)
<1> DEFINE t == Tail(s)
<1>1. Len(s) \in Nat \ {0} /\ Len(t) = Len(s) - 1 /\ Head(s) = s[1] /\ \A i \in 1 .. Len(t) : t[i] = s[i + 1]
  OBVIOUS
<1>2. s[1] \in S
  BY <1>1
<1> HIDE DEF t
<1>3. ASSUME NEW i \in 1 .. Len(t), t[i] \in Wishes, \A j \in i + 1 .. Len(t) : t[j] \notin Wishes
      PROVE  (t[i] = "PrivacyOn") = v
  <2>1. i + 1 \in 1 .. Len(s) /\ s[i + 1] \in Wishes
    BY <1>1, <1>3
  <2>2. ASSUME NEW j \in i + 2 .. Len(s) PROVE s[j] \notin Wishes
    <3>1. j - 1 \in i + 1 .. Len(t) /\ j - 1 \in 1 .. Len(t) /\ j = (j - 1) + 1
      BY <1>1
    <3>2. t[j - 1] = s[j]
      BY <1>1, <3>1
    <3> QED
      BY <1>3, <3>1, <3>2
  <2> QED
    BY <1>1, <2>1, <2>2 DEF Follows
<1>4. ASSUME \A i \in 1 .. Len(t) : t[i] \notin Wishes, s[1] \notin Wishes
      PROVE  \A i \in 1 .. Len(s) : s[i] \notin Wishes
  <2> TAKE i \in 1 .. Len(s)
  <2>1. i = 1 \/ (i - 1 \in 1 .. Len(t) /\ i = (i - 1) + 1)
    BY <1>1
  <2> QED
    BY <1>1, <1>4, <2>1
<1>5. ASSUME \A i \in 1 .. Len(t) : t[i] \notin Wishes, s[1] \in Wishes
      PROVE  (s[1] = "PrivacyOn") = v
  <2>1. ASSUME NEW j \in 2 .. Len(s) PROVE s[j] \notin Wishes
    <3>1. j - 1 \in 1 .. Len(t) /\ j = (j - 1) + 1
      BY <1>1
    <3> QED
      BY <1>1, <1>5, <3>1
  <2> QED
    BY <1>1, <1>5, <2>1 DEF Follows
<1>6. CASE s[1] \in Wishes
  <2> DEFINE a == Append(b, s[1])
  <2>1. a # <<>> /\ a[Len(a)] = s[1]
    BY <1>2
  <2> HIDE DEF a
  <2>2. Follows(t, a, d, v)
    BY <1>3, <1>5, <1>6, <2>1 DEF Follows
  <2> QED
    BY <1>1, <1>6, <2>2 DEF a, t
<1>7. CASE s[1] \notin Wishes
  <2>1. Follows(t, b, d, v)
    BY <1>3, <1>4, <1>7 DEF Follows
  <2> QED
    BY <1>1, <1>7, <2>1 DEF t
<1> QED
  BY <1>6, <1>7

\* The blank thread does what it was passed.
LEMMA FollowsBlank ==
  ASSUME NEW s, NEW b \in Seq(Wishes), b # <<>>, NEW d, NEW v, Follows(s, b, d, v)
  PROVE  Follows(s, Tail(b), Head(b) = "PrivacyOn", v)
<1> DEFINE t == Tail(b)
<1>1. Len(b) \in Nat \ {0} /\ Len(t) = Len(b) - 1 /\ Head(b) = b[1] /\ \A i \in 1 .. Len(t) : t[i] = b[i + 1]
  OBVIOUS
<1>2. t = <<>> <=> Len(b) = 1
  <2>1. t \in Seq(Wishes)
    OBVIOUS
  <2> HIDE DEF t
  <2> QED
    BY <1>1, <2>1, EmptySeq
<1> HIDE DEF t
<1>3. t # <<>> => t[Len(t)] = b[Len(b)]
  BY <1>1, <1>2
<1>4. Follows(s, t, b[1] = "PrivacyOn", v)
  BY <1>1, <1>2, <1>3 DEF Follows
<1> QED
  BY <1>1, <1>4 DEF t

ModesSetting(z) ==
  Asked(z)!NoneAssumption /\ z.asks \in Nat /\ z.switches \in Nat /\ z.breaks \in Nat

\* Who is blocked without having been asked was refused the end, and for the block was told; and
\* the screen follows the wishes, unless one came without the keyboard permission.
BlockFollows(z) == \A c \in z.conn :
  modesLast[c] \in Asked(z)!Offs /\ (mode[c] \/ blocker = c) =>
    modesRefused[c] /\ (modesLast[c] = "BlockOff" => modesTold[c])
DarkFollows(z) == \A c \in z.conn : ~ignored[c] => Follows(modesQ[c], bq[c], dark[c], private[c])
ModesInv(z) == Asked(z)!TypeOK /\ BlockFollows(z) /\ DarkFollows(z)

\* At first nothing is blocked, and the screen follows the option that the login carries.
LEMMA ModesInit ==
  ASSUME NEW z, ModesSetting(z), Asked(z)!Init
  PROVE  ModesInv(z)
<1> USE DEF Asked!Init
<1>0. /\ private \in [z.conn -> BOOLEAN] /\ modesQ = [c \in z.conn |-> IF private[c] THEN <<"PrivacyOn">> ELSE <<>>]
      /\ bq = [c \in z.conn |-> <<>>] /\ dark = [c \in z.conn |-> FALSE]
  OBVIOUS
<1>1. modesQ \in [z.conn -> Seq(Asked(z)!Requests)] /\ bq \in [z.conn -> Seq({"PrivacyOn", "PrivacyOff"})]
  <2>1. <<"PrivacyOn">> \in Seq(Asked(z)!Requests) /\ <<>> \in Seq(Asked(z)!Requests) /\ <<>> \in Seq({"PrivacyOn", "PrivacyOff"})
    BY DEF Asked!Requests, Asked!Ons, Asked!Offs
  <2> QED
    BY <1>0, <2>1
<1>2. Asked(z)!TypeOK
  <2>1. modesBudget \in [asks : [z.conn -> 0 .. z.asks], switches : 0 .. z.switches, breaks : 0 .. z.breaks]
    BY DEF ModesSetting
  <2> QED
    BY <1>1, <2>1 DEF Asked!TypeOK
<1>3. BlockFollows(z)
  BY DEF BlockFollows, Asked!Offs
<1>4. DarkFollows(z)
  <2>1. Follows(<<"PrivacyOn">>, <<>>, FALSE, TRUE) /\ Follows(<<>>, <<>>, FALSE, FALSE)
    BY DEF Follows, Wishes
  <2>2. ASSUME NEW c \in z.conn PROVE Follows(modesQ[c], bq[c], dark[c], private[c])
    BY <1>0, <2>1
  <2> QED
    BY <2>2 DEF DarkFollows
<1> QED
  BY <1>2, <1>3, <1>4 DEF ModesInv

\* What the viewer clicks is received.
LEMMA ModesViewerStep ==
  ASSUME NEW z, ModesSetting(z), ModesInv(z), NEW c \in z.conn, Asked(z)!Viewer(c)
  PROVE  ModesInv(z)'
<1>0. Asked(z)!TypeOK
  BY DEF ModesInv
<1>1. PICK r \in Asked(z)!Requests :
        /\ modesQ' = IF keyboard[c] THEN [modesQ EXCEPT ![c] = Append(@, r)] ELSE modesQ
        /\ \/ r \in Wishes /\ private' = [private EXCEPT ![c] = ~@] /\ ((r = "PrivacyOn") <=> ~private[c])
              /\ ignored' = [ignored EXCEPT ![c] = ~keyboard[c]] /\ label' = label
           \/ r \notin Wishes /\ private' = private /\ ignored' = ignored /\ label' \in [z.conn -> BOOLEAN]
        /\ modesBudget' = [modesBudget EXCEPT !.asks[c] = @ - 1] /\ modesBudget.asks[c] > 0
        /\ UNCHANGED <<there, keyboard, mode, modesInput, dark, blank, bq, blocker, off, modesLast, modesTold, modesRefused>>
  <2>1. /\ modesBudget' = [modesBudget EXCEPT !.asks[c] = @ - 1] /\ modesBudget.asks[c] > 0
        /\ UNCHANGED <<there, keyboard, mode, modesInput, dark, blank, bq, blocker, off, modesLast, modesTold, modesRefused>>
    BY DEF Asked!Viewer, Asked!TogglePrivacy, Asked!ToggleBlock, Asked!Click, Asked!threads, Asked!ghosts
  <2>2. CASE Asked(z)!TogglePrivacy(c)
    <3> DEFINE r == IF private[c] THEN "PrivacyOff" ELSE "PrivacyOn"
    <3>1. /\ modesQ' = IF keyboard[c] THEN [modesQ EXCEPT ![c] = Append(@, r)] ELSE modesQ
          /\ private' = [private EXCEPT ![c] = ~@] /\ ignored' = [ignored EXCEPT ![c] = ~keyboard[c]] /\ label' = label
      BY <2>2 DEF Asked!TogglePrivacy, Asked!Receive
    <3>2. r \in Wishes /\ r \in Asked(z)!Requests /\ ((r = "PrivacyOn") <=> ~private[c])
      BY DEF Asked!Requests, Asked!Ons, Asked!Offs, Wishes
    <3> HIDE DEF r
    <3> QED
      BY <2>1, <3>1, <3>2
  <2>3. CASE Asked(z)!ToggleBlock(c)
    <3> DEFINE r == IF label[c] THEN "BlockOff" ELSE "BlockOn"
    <3>1. /\ modesQ' = IF keyboard[c] THEN [modesQ EXCEPT ![c] = Append(@, r)] ELSE modesQ
          /\ private' = private /\ ignored' = ignored
      BY <2>3 DEF Asked!ToggleBlock, Asked!Receive
    <3>2. r \notin Wishes /\ r \in Asked(z)!Requests
      BY DEF Asked!Requests, Asked!Ons, Asked!Offs, Wishes
    <3>3. label' \in [z.conn -> BOOLEAN]
      BY <1>0, <2>3 DEF Asked!ToggleBlock, Asked!TypeOK
    <3> HIDE DEF r
    <3> QED
      BY <2>1, <3>1, <3>2, <3>3
  <2> QED
    BY <2>2, <2>3 DEF Asked!Viewer
<1>2. Append(modesQ[c], r) \in Seq(Asked(z)!Requests)
  BY <1>0 DEF Asked!TypeOK
<1> DEFINE a == Append(modesQ[c], r)
<1>3. modesQ' = (IF keyboard[c] THEN [modesQ EXCEPT ![c] = a] ELSE modesQ)
  BY <1>1
<1>4. ~ignored'[c] => Follows(modesQ'[c], bq[c], dark[c], private'[c])
  <2>1. CASE keyboard[c]
    <3>1. IF r \in Wishes THEN private'[c] = (r = "PrivacyOn")
                          ELSE ~ignored'[c] => private'[c] = private[c] /\ Follows(modesQ[c], bq[c], dark[c], private[c])
      BY <1>0, <1>1 DEF ModesInv, DarkFollows, Asked!TypeOK
    <3>2. modesQ'[c] = Append(modesQ[c], r) /\ modesQ[c] \in Seq(Asked(z)!Requests)
      BY <1>0, <1>1, <2>1 DEF Asked!TypeOK
    <3> QED
      BY <3>1, <3>2, FollowsAppend
  <2>2. CASE ~keyboard[c]
    BY <1>0, <1>1, <2>2 DEF ModesInv, DarkFollows, Asked!TypeOK
  <2> QED
    BY <2>1, <2>2
<1> HIDE DEF a
<1>5. DarkFollows(z)'
  <2>1. ASSUME NEW d \in z.conn, d # c
        PROVE  modesQ'[d] = modesQ[d] /\ private'[d] = private[d] /\ ignored'[d] = ignored[d]
    BY <1>0, <1>1, <1>3, <2>1 DEF Asked!TypeOK
  <2> QED
    BY <1>1, <1>4, <2>1 DEF ModesInv, DarkFollows
<1>6. BlockFollows(z)'
  BY <1>1 DEF ModesInv, BlockFollows
<1>7. Asked(z)!TypeOK'
  <2>1. modesQ' \in [z.conn -> Seq(Asked(z)!Requests)]
    BY <1>0, <1>2, <1>3 DEF Asked!TypeOK, a
  <2>2. modesBudget' \in [asks : [z.conn -> 0 .. z.asks], switches : 0 .. z.switches, breaks : 0 .. z.breaks]
    <3>1. modesBudget.asks[c] - 1 \in 0 .. z.asks
      BY <1>0, <1>1 DEF Asked!TypeOK, ModesSetting
    <3> QED
      BY <1>0, <1>1, <3>1 DEF Asked!TypeOK
  <2>3. private' \in [z.conn -> BOOLEAN] /\ ignored' \in [z.conn -> BOOLEAN] /\ label' \in [z.conn -> BOOLEAN]
    BY <1>0, <1>1 DEF Asked!TypeOK
  <2> QED
    BY <1>0, <1>1, <2>1, <2>2, <2>3 DEF Asked!TypeOK
<1> QED
  BY <1>5, <1>6, <1>7 DEF ModesInv

\* A request is worked off (connection.rs, handle_input).
LEMMA HandleInputStep ==
  ASSUME NEW z, ModesSetting(z), ModesInv(z), NEW c \in z.conn, Asked(z)!HandleInput(c)
  PROVE  ModesInv(z)'
<1>0. Asked(z)!TypeOK
  BY DEF ModesInv
<1> DEFINE r == Head(modesQ[c])
           t == Tail(modesQ[c])
<1>1. modesQ[c] \in Seq(Asked(z)!Requests) /\ bq[c] \in Seq(Wishes) /\ modesQ[c] # <<>>
  BY <1>0 DEF Asked!TypeOK, Asked!HandleInput, Wishes
<1>2. r \in Asked(z)!Requests /\ t \in Seq(Asked(z)!Requests)
  BY <1>1
<1>3. PICK ok \in BOOLEAN :
        /\ IF r \in Asked(z)!Ons THEN Asked(z)!Blocks(c, ok) ELSE Asked(z)!Unblocks(c, ok)
        /\ mode' = IF ok THEN [mode EXCEPT ![c] = r \in Asked(z)!Ons] ELSE mode
        /\ bq' = IF r \in Wishes THEN [bq EXCEPT ![c] = Append(@, r)] ELSE bq
        /\ modesLast' = [modesLast EXCEPT ![c] = r]
        /\ modesRefused' = [modesRefused EXCEPT ![c] = ~ok]
        /\ modesTold' = [modesTold EXCEPT ![c] = ~ok /\ r \in {"BlockOn", "BlockOff"}]
  BY DEF Asked!HandleInput, Asked!Decide, Asked!Pass, Wishes
<1>4. /\ modesQ' = [modesQ EXCEPT ![c] = t]
      /\ UNCHANGED <<there, keyboard, private, label, modesInput, dark, blank, off, ignored, modesBudget>>
  BY DEF Asked!HandleInput, Asked!viewer
<1>5. Follows(modesQ[c], bq[c], dark[c], private[c]) => Follows(t, bq'[c], dark[c], private[c])
  <2>1. bq[c] \in Seq(Asked(z)!Requests)
    BY <1>1 DEF Wishes, Asked!Requests, Asked!Ons, Asked!Offs
  <2>2. bq'[c] = IF r \in Wishes THEN Append(bq[c], r) ELSE bq[c]
    BY <1>0, <1>3 DEF Asked!TypeOK
  <2> QED
    BY <1>1, <2>1, <2>2, FollowsTail
<1>6. r \in Wishes => Append(bq[c], r) \in Seq(Wishes)
  BY <1>1
<1> DEFINE a == Append(bq[c], r)
<1>7. bq' = IF r \in Wishes THEN [bq EXCEPT ![c] = a] ELSE bq
  BY <1>3
<1>8. r \in Asked(z)!Ons => r \notin Asked(z)!Offs
  BY DEF Asked!Ons, Asked!Offs
<1>9. r \notin Asked(z)!Ons => r \in Asked(z)!Offs
  BY <1>2 DEF Asked!Requests
<1> HIDE DEF r, t, a
<1>10. blocker' \in z.conn \cup {None} /\ (blocker' \in {blocker, None} \/ (blocker' = c /\ r \in Asked(z)!Ons))
  BY <1>0, <1>3 DEF Asked!Blocks, Asked!Unblocks, Asked!TypeOK
<1>11. r \in Asked(z)!Offs /\ ok => blocker' # c
  BY <1>3, <1>8 DEF Asked!Unblocks, ModesSetting, Asked!NoneAssumption
<1>12. BlockFollows(z)'
  <2>1. ASSUME NEW d \in z.conn, d # c, modesLast'[d] \in Asked(z)!Offs, mode'[d] \/ blocker' = d
        PROVE  modesRefused'[d] /\ (modesLast'[d] = "BlockOff" => modesTold'[d])
    BY <1>0, <1>3, <1>10, <2>1 DEF ModesSetting, Asked!NoneAssumption, ModesInv, BlockFollows, Asked!TypeOK
  <2>2. ASSUME modesLast'[c] \in Asked(z)!Offs, mode'[c] \/ blocker' = c
        PROVE  modesRefused'[c] /\ (modesLast'[c] = "BlockOff" => modesTold'[c])
    <3>1. modesLast'[c] = r /\ modesRefused'[c] = ~ok /\ modesTold'[c] = (~ok /\ r \in {"BlockOn", "BlockOff"})
      BY <1>0, <1>3 DEF Asked!TypeOK
    <3>2. ok => ~mode'[c]
      BY <1>0, <1>3, <1>8, <2>2, <3>1 DEF Asked!TypeOK
    <3> QED
      BY <1>11, <2>2, <3>1, <3>2
  <2> QED
    BY <2>1, <2>2 DEF BlockFollows, Asked!Offs
<1>13. DarkFollows(z)'
  <2>1. ASSUME NEW d \in z.conn, d # c PROVE modesQ'[d] = modesQ[d] /\ bq'[d] = bq[d]
    BY <1>0, <1>4, <1>7, <2>1 DEF Asked!TypeOK
  <2>2. modesQ'[c] = t
    BY <1>0, <1>4 DEF Asked!TypeOK
  <2> QED
    BY <1>4, <1>5, <2>1, <2>2 DEF ModesInv, DarkFollows
<1>14. Asked(z)!TypeOK'
  <2>1. modesQ' \in [z.conn -> Seq(Asked(z)!Requests)] /\ bq' \in [z.conn -> Seq(Wishes)]
    BY <1>0, <1>2, <1>4, <1>6, <1>7 DEF Asked!TypeOK, Wishes, a
  <2>2. /\ mode' \in [z.conn -> BOOLEAN] /\ modesLast' \in [z.conn -> Asked(z)!Requests \cup {"none"}]
        /\ modesRefused' \in [z.conn -> BOOLEAN]
    BY <1>0, <1>2, <1>3 DEF Asked!TypeOK
  <2>3. modesTold' \in [z.conn -> BOOLEAN]
    BY <1>0, <1>3 DEF Asked!TypeOK
  <2> QED
    BY <1>0, <1>4, <1>10, <2>1, <2>2, <2>3 DEF Asked!TypeOK, Wishes
<1> QED
  BY <1>12, <1>13, <1>14 DEF ModesInv

\* The rest: the timers, the end of the threads, the blank thread, who is at the host.
LEMMA ModesOtherStep ==
  ASSUME NEW z, ModesSetting(z), ModesInv(z),
         \/ Asked(z)!SecureAttention \/ Asked(z)!Wake
         \/ \E c \in z.conn : \/ Asked(z)!SwitchKeyboard(c) \/ Asked(z)!Close(c)
                              \/ Asked(z)!InputTimeout(c) \/ Asked(z)!InputEnds(c) \/ Asked(z)!BlankThread(c)
  PROVE  ModesInv(z)'
<1>0. Asked(z)!TypeOK
  BY DEF ModesInv
<1>1. CASE Asked(z)!SecureAttention
  <2>1. /\ blocker' = None /\ modesBudget' \in [asks : [z.conn -> 0 .. z.asks], switches : 0 .. z.switches, breaks : 0 .. z.breaks]
        /\ UNCHANGED <<there, keyboard, private, label, modesQ, mode, modesInput, dark, blank, bq, off, modesLast,
                       modesTold, modesRefused, ignored>>
    <3>1. modesBudget.breaks - 1 \in 0 .. z.breaks
      BY <1>0, <1>1 DEF Asked!SecureAttention, Asked!TypeOK, ModesSetting
    <3> QED
      BY <1>0, <1>1, <3>1 DEF Asked!SecureAttention, Asked!TypeOK, Asked!viewer, Asked!threads, Asked!ghosts
  <2>2. Asked(z)!TypeOK'
    BY <1>0, <2>1 DEF Asked!TypeOK
  <2> QED
    BY <2>1, <2>2 DEF ModesSetting, Asked!NoneAssumption, ModesInv, BlockFollows, DarkFollows
<1>2. CASE Asked(z)!Wake
  BY <1>0, <1>2 DEF Asked!Wake, ModesInv, BlockFollows, DarkFollows, Asked!TypeOK, Asked!viewer, Asked!threads, Asked!ghosts
<1>3. ASSUME NEW c \in z.conn, Asked(z)!SwitchKeyboard(c) PROVE ModesInv(z)'
  <2>1. /\ modesBudget' \in [asks : [z.conn -> 0 .. z.asks], switches : 0 .. z.switches, breaks : 0 .. z.breaks]
        /\ keyboard' \in [z.conn -> BOOLEAN]
        /\ UNCHANGED <<there, blocker, private, label, modesQ, mode, modesInput, dark, blank, bq, off, modesLast,
                       modesTold, modesRefused, ignored>>
    <3>1. modesBudget.switches - 1 \in 0 .. z.switches
      BY <1>0, <1>3 DEF Asked!SwitchKeyboard, Asked!TypeOK, ModesSetting
    <3> QED
      BY <1>0, <1>3, <3>1 DEF Asked!SwitchKeyboard, Asked!TypeOK, Asked!viewer, Asked!threads, Asked!ghosts
  <2>2. Asked(z)!TypeOK'
    BY <1>0, <2>1 DEF Asked!TypeOK
  <2> QED
    BY <2>1, <2>2 DEF ModesSetting, Asked!NoneAssumption, ModesInv, BlockFollows, DarkFollows
<1>4. ASSUME NEW c \in z.conn, Asked(z)!Close(c) PROVE ModesInv(z)'
  BY <1>0, <1>4 DEF Asked!Close, ModesInv, BlockFollows, DarkFollows, Asked!TypeOK, Asked!viewer, Asked!threads, Asked!ghosts
<1>5. ASSUME NEW c \in z.conn, Asked(z)!InputTimeout(c) PROVE ModesInv(z)'
  BY <1>0, <1>5 DEF Asked!InputTimeout, Asked!Blocks, ModesInv, BlockFollows, DarkFollows, Asked!TypeOK, Asked!viewer,
    Asked!threads, Asked!ghosts
<1>6. ASSUME NEW c \in z.conn, Asked(z)!InputEnds(c) PROVE ModesInv(z)'
  <2>1. /\ blocker' \in {blocker, None} /\ modesInput' = [modesInput EXCEPT ![c] = FALSE]
        /\ UNCHANGED <<there, keyboard, private, label, modesQ, mode, off, dark, blank, bq, modesLast,
                       modesTold, modesRefused, ignored, modesBudget>>
    BY <1>6 DEF Asked!InputEnds, Asked!viewer, Asked!ghosts
  <2>2. Asked(z)!TypeOK'
    BY <1>0, <2>1 DEF Asked!TypeOK
  <2> QED
    BY <2>1, <2>2 DEF ModesSetting, Asked!NoneAssumption, ModesInv, BlockFollows, DarkFollows
<1>7. ASSUME NEW c \in z.conn, Asked(z)!BlankTimeout(c) \/ Asked(z)!BlankEnds(c) PROVE ModesInv(z)'
  <2>1. /\ off' \in BOOLEAN /\ blank' \in [z.conn -> BOOLEAN]
        /\ UNCHANGED <<there, keyboard, blocker, private, label, modesQ, mode, modesInput, dark, bq, modesLast,
                       modesTold, modesRefused, ignored, modesBudget>>
    BY <1>0, <1>7 DEF Asked!BlankTimeout, Asked!BlankEnds, Asked!TypeOK, Asked!viewer, Asked!threads, Asked!ghosts
  <2>2. Asked(z)!TypeOK'
    BY <1>0, <2>1 DEF Asked!TypeOK
  <2> QED
    BY <2>1, <2>2 DEF ModesSetting, Asked!NoneAssumption, ModesInv, BlockFollows, DarkFollows
<1>8. ASSUME NEW c \in z.conn, Asked(z)!HandleBlank(c) PROVE ModesInv(z)'
  <2> DEFINE on == Head(bq[c]) = "PrivacyOn"
             t == Tail(bq[c])
  <2>1. bq[c] \in Seq(Wishes) /\ bq[c] # <<>>
    BY <1>0, <1>8 DEF Asked!TypeOK, Asked!HandleBlank, Wishes
  <2>2. t \in Seq(Wishes) /\ on \in BOOLEAN
    BY <2>1
  <2>3. Follows(modesQ[c], bq[c], dark[c], private[c]) => Follows(modesQ[c], t, on, private[c])
    BY <2>1, FollowsBlank
  <2>4. /\ off' = on /\ dark' = [dark EXCEPT ![c] = on] /\ bq' = [bq EXCEPT ![c] = t]
        /\ UNCHANGED <<there, keyboard, blocker, private, label, modesQ, mode, modesInput, blank, modesLast,
                       modesTold, modesRefused, ignored, modesBudget>>
    BY <1>8 DEF Asked!HandleBlank, Asked!viewer, Asked!ghosts
  <2> HIDE DEF on, t
  <2>5. off' \in BOOLEAN /\ dark' \in [z.conn -> BOOLEAN] /\ bq' \in [z.conn -> Seq(Wishes)]
    BY <1>0, <2>2, <2>4 DEF Asked!TypeOK, Wishes
  <2>6. Asked(z)!TypeOK'
    BY <1>0, <2>4, <2>5 DEF Asked!TypeOK, Wishes
  <2>7. DarkFollows(z)'
    BY <1>0, <2>3, <2>4 DEF ModesInv, DarkFollows, Asked!TypeOK
  <2> QED
    BY <2>4, <2>6, <2>7 DEF ModesInv, BlockFollows
<1> QED
  BY <1>1, <1>2, <1>3, <1>4, <1>5, <1>6, <1>7, <1>8 DEF Asked!BlankThread

\* Every step keeps what holds of the modes, whatever the setting.
LEMMA ModesStep ==
  ASSUME NEW z, ModesSetting(z), ModesInv(z), [Asked(z)!Next]_modesVars
  PROVE  ModesInv(z)'
<1>1. CASE UNCHANGED modesVars
  BY <1>1 DEF modesVars, ModesInv, BlockFollows, DarkFollows, Asked!TypeOK
<1>2. CASE Asked(z)!Next
  BY <1>2, ModesViewerStep, HandleInputStep, ModesOtherStep DEF Asked!Next, Asked!InputThread
<1> QED
  BY <1>1, <1>2

\* What is asked of the modes follows.
LEMMA ModesHold ==
  ASSUME NEW z, ModesInv(z)
  PROVE  Asked(z)!BlockedIsAsked /\ Asked(z)!DarkAsAsked
<1>1. \A c \in z.conn : modesQ[c] = <<>> => Len(modesQ[c]) = 0
  OBVIOUS
<1> QED
  BY <1>1 DEF ModesInv, BlockFollows, DarkFollows, Follows, Asked!BlockedIsAsked, Asked!DarkAsAsked

-----------------------------------------------------------------------------
(* What the viewers type and ask for, side by side. *)

TwoViewers == [conn |-> {"c1", "c2"}, asks |-> 1, switches |-> Bound(1, 0), breaks |-> 1]

\* The part of the modes is the setting TwoViewers.
LEMMA ModesAre ==
  /\ Modes!Init => Asked(TwoViewers)!Init
  /\ Modes!Next => Asked(TwoViewers)!Next
  /\ Asked(TwoViewers)!TypeOK => Modes!TypeOK
  /\ Asked(TwoViewers)!BlockedIsAsked => Modes!BlockedIsAsked
  /\ Asked(TwoViewers)!DarkAsAsked => Modes!DarkAsAsked
<1> DEFINE z == TwoViewers
<1>0. z.conn = {"c1", "c2"} /\ z.asks = 1 /\ z.switches = Bound(1, 0) /\ z.breaks = 1
  BY DEF TwoViewers
<1> HIDE DEF z
<1>1. Modes!Init => Asked(z)!Init
  BY <1>0 DEF Modes!Init, Asked!Init
<1>2. Modes!Next => Asked(z)!Next
  <2> USE DEF Modes!viewer, Modes!threads, Modes!ghosts, Asked!viewer, Asked!threads, Asked!ghosts, Modes!Ons, Asked!Ons,
    Modes!Receive, Asked!Receive, Modes!Click, Asked!Click
  <2>1. (Modes!SecureAttention => Asked(z)!SecureAttention) /\ (Modes!Wake => Asked(z)!Wake)
    BY <1>0 DEF Modes!SecureAttention, Asked!SecureAttention, Modes!Wake, Asked!Wake
  <2>2. ASSUME NEW c \in z.conn, Modes!Viewer(c) \/ Modes!SwitchKeyboard(c) \/ Modes!Close(c)
        PROVE  Asked(z)!Viewer(c) \/ Asked(z)!SwitchKeyboard(c) \/ Asked(z)!Close(c)
    BY <1>0, <2>2 DEF Modes!Viewer, Asked!Viewer, Modes!TogglePrivacy, Asked!TogglePrivacy, Modes!ToggleBlock,
      Asked!ToggleBlock, Modes!SwitchKeyboard, Asked!SwitchKeyboard, Modes!Close, Asked!Close
  <2>3. ASSUME NEW c \in z.conn, Modes!HandleInput(c) PROVE Asked(z)!HandleInput(c)
    BY <1>0, <2>3 DEF Modes!HandleInput, Asked!HandleInput, Modes!Blocks, Asked!Blocks, Modes!Unblocks, Asked!Unblocks,
      Modes!Decide, Asked!Decide, Modes!Pass, Asked!Pass
  <2>4. ASSUME NEW c \in z.conn, Modes!InputTimeout(c) \/ Modes!InputEnds(c) \/ Modes!BlankThread(c)
        PROVE  Asked(z)!InputTimeout(c) \/ Asked(z)!InputEnds(c) \/ Asked(z)!BlankThread(c)
    BY <1>0, <2>4 DEF Modes!InputTimeout, Asked!InputTimeout, Modes!InputEnds, Asked!InputEnds, Modes!BlankThread,
      Asked!BlankThread, Modes!HandleBlank, Asked!HandleBlank, Modes!BlankTimeout, Asked!BlankTimeout, Modes!BlankEnds,
      Asked!BlankEnds, Modes!Blocks, Asked!Blocks
  <2> QED
    BY <1>0, <2>1, <2>2, <2>3, <2>4 DEF Modes!Next, Asked!Next, Modes!InputThread, Asked!InputThread
<1>3. Asked(z)!TypeOK => Modes!TypeOK
  BY <1>0 DEF Modes!TypeOK, Asked!TypeOK, Modes!Requests, Asked!Requests, Modes!Ons, Asked!Ons, Modes!Offs, Asked!Offs
<1>4. (Asked(z)!BlockedIsAsked => Modes!BlockedIsAsked) /\ (Asked(z)!DarkAsAsked => Modes!DarkAsAsked)
  BY <1>0 DEF Modes!BlockedIsAsked, Asked!BlockedIsAsked, Modes!DarkAsAsked, Asked!DarkAsAsked, Modes!Offs, Asked!Offs
<1> QED
  BY <1>1, <1>2, <1>3, <1>4 DEF z

\* The settings are ones that the generic proofs are about.
LEMMA SettingsAllowed ==
  /\ Relay(LetterShift)!KeyAssumption /\ Relay(LetterAltGr)!KeyAssumption /\ Relay(LetterLinux)!KeyAssumption
  /\ ModesSetting(TwoViewers)
<1>1. Relay(LetterShift)!KeyAssumption /\ Relay(LetterAltGr)!KeyAssumption /\ Relay(LetterLinux)!KeyAssumption
  BY PartsAssumption DEF LetterShift, LetterAltGr, LetterLinux, Relay!KeyAssumption, Keys!KeyAssumption,
    AltGr!KeyAssumption, OnLinux!KeyAssumption
<1>2. ModesSetting(TwoViewers)
  BY PartsAssumption DEF TwoViewers, ModesSetting, Asked!NoneAssumption, Modes!NoneAssumption, Bound
<1> QED
  BY <1>1, <1>2

\* A step of PartsNext is, for the input, a step of its part or none.
LEMMA InputMoves ==
  ASSUME [PartsNext]_partsVars
  PROVE  /\ part' = part
         /\ part \notin {"keys_altgr", "keys_linux"} => [Keys!Next]_keysVars
         /\ part = "keys_altgr" => [AltGr!Next]_keysVars
         /\ part = "keys_linux" => [OnLinux!Next]_keysVars
         /\ [Modes!Next]_modesVars
BY DEF PartsNext, partsVars, Still, CursorSteps, HostSteps, RefusedSteps, LoginSteps, KeySteps,
  AltGrSteps, OnLinuxSteps, ModesSteps, WindowsSteps, StoredSteps, TogetherSteps, OptionsSteps,
  SyncSteps, PasswordSteps, WinServiceSteps, LinServiceSteps, Ended

\* What holds of the input.
InputInv ==
  /\ part \notin {"keys_altgr", "keys_linux"} => KeysInv(LetterShift)
  /\ part = "keys_altgr" => KeysInv(LetterAltGr)
  /\ part = "keys_linux" => KeysInv(LetterLinux)
  /\ ModesInv(TwoViewers)

\* An event in hand names a key.
LEMMA KeysTyped ==
  ASSUME NEW z, KeysInv(z)
  PROVE  Relay(z)!TypeOK
BY DEF KeysInv, KeyTypes, KeyEvents, Relay!TypeOK, Relay!NoEvent

\* What the viewers type and ask for is what happens to the host, in every interleaving of their
\* events, the input threads, the loop over the keys held down and the handler of ctrl-c: a letter
\* comes with the modifiers it was meant with, no key is down that is not in the table, and the
\* process leaves none down (input_service.rs); the input is blocked, and the screen dark, for
\* who asked for it (connection.rs, handle_input, handle_blank).
THEOREM InputArrivesAsMeant == PartsSpec => []InputAsMeant
<1>1. PartsInit => InputInv
  BY KeysAre, AltGrAre, OnLinuxAre, ModesAre, KeysInit, ModesInit, SettingsAllowed DEF PartsInit, InputInv
<1>2. InputInv /\ [PartsNext]_partsVars => InputInv'
  <2> SUFFICES ASSUME InputInv, [PartsNext]_partsVars PROVE InputInv'
    OBVIOUS
  <2>1. /\ part \notin {"keys_altgr", "keys_linux"} => [Relay(LetterShift)!Next]_keysVars
        /\ part = "keys_altgr" => [Relay(LetterAltGr)!Next]_keysVars
        /\ part = "keys_linux" => [Relay(LetterLinux)!Next]_keysVars
        /\ [Asked(TwoViewers)!Next]_modesVars
    BY InputMoves, KeysAre, AltGrAre, OnLinuxAre, ModesAre
  <2>2. part \notin {"keys_altgr", "keys_linux"} => KeysInv(LetterShift)'
    BY <2>1, KeysStep, SettingsAllowed DEF InputInv
  <2>3. part = "keys_altgr" => KeysInv(LetterAltGr)'
    BY <2>1, KeysStep, SettingsAllowed DEF InputInv
  <2>4. part = "keys_linux" => KeysInv(LetterLinux)'
    BY <2>1, KeysStep, SettingsAllowed DEF InputInv
  <2>5. ModesInv(TwoViewers)'
    BY <2>1, ModesStep, SettingsAllowed DEF InputInv
  <2> QED
    BY <2>2, <2>3, <2>4, <2>5, InputMoves DEF InputInv
<1>3. InputInv => InputAsMeant
  <2> SUFFICES ASSUME InputInv PROVE InputAsMeant
    OBVIOUS
  <2>1. part = "keys" => Keys!TypeOK /\ Keys!TypedAsMeant /\ Keys!DownIsKnown /\ Keys!ExitReleases
    BY KeysAre, KeysTyped DEF InputInv, KeysInv
  <2>2. part = "keys_altgr" => AltGr!TypeOK /\ AltGr!TypedAsMeant
    BY AltGrAre, KeysTyped DEF InputInv, KeysInv
  <2>3. part = "keys_linux" => OnLinux!TypedAsMeant
    BY OnLinuxAre DEF InputInv, KeysInv
  <2>4. Modes!TypeOK /\ Modes!BlockedIsAsked /\ Modes!DarkAsAsked
    BY ModesAre, ModesHold DEF InputInv, ModesInv
  <2> QED
    BY <2>1, <2>2, <2>3, <2>4 DEF InputAsMeant
<1> QED
  BY <1>1, <1>2, <1>3, PTL DEF PartsSpec
=============================================================================
