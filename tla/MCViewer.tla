------------------------------ MODULE MCViewer ------------------------------
(***************************************************************************)
(* A machine that controls another one, for TLC: the pictures and the      *)
(* sound it gets, its window, its files, forwards and clipboards.  The     *)
(* parts stand side by side, and a behaviour moves one of them: their      *)
(* states add up, and do not multiply.                                     *)
(***************************************************************************)
EXTENDS VideoService

CONSTANTS
  Parts, \* the parts of this run
  Live,  \* whether the bounds are those of the runs that check liveness
  None, Gone \* no value, and another one

VARIABLES
  part, \* the part that moves
  \* Displays:
  screensSubscribes, screensNewSubscribes, screens, mode, primary, current, screensSwitch,
  idle, quality, screensPc, screensGot, screensPhase, screensChan, knows, screensCount,
  screensExcused,
  \* Audio:
  soundSubscribes, soundNewSubscribes, soundPc, mayReset, stream, pa, paOld, setting,
  toRestart, restarting, soundGate, off, soundUp, soundChan, soundWindow, soundCount,
  soundExcused,
  \* RemoteWindow:
  box, remotePending, retry, joining, remoteThread, framed, peer, logins, answers, tried,
  stored, remoteRemember, remoteClosed, sessions, remoteTyped, twice, late, ignored,
  \* PeerOptions:
  file, pend, mem, menuTyped, menuRemember, win, host, menuQ, r, menuClicks, menuHist,
  \* FileTransfer:
  filesSize, filesUp, filesSession, filesJob, filesReader, filesWriter, filesWire,
  filesBack, filesPart, filesFinal, filesTold, filesHit, filesLeft, filesStale,
  \* FileTransfer:
  copySize, copyUp, copySession, copyJob, copyReader, copyWriter, copyWire, copyBack,
  copyPart, copyFinal, copyTold, copyHit, copyLeft, copyStale,
  \* DeleteDir:
  n, remote, bad, stuck, deleteClosed, files, dir, ui, dialog, deleteJob, deleteQ, req, ans,
  deleteLost, deleteAllowed, skipped, deleteTold, hushed, after,
  \* PortForward:
  forwardListed, inbox, queues, lst, lc, conn, forwardClosed, asking, forwardClicks,
  forwardLost,
  \* FramedStream:
  sent, wbuf, net, rbuf, raw, state, readable, streamCount, streamGot, failed, streamLost,
  \* ClipboardSync:
  os, old, seen, putting, textWire, greet, flag, disabled, textAllowed, shy, authorized,
  sub, svc, textEvent, copies, switches, lone, last, raced,
  \* FileClipboard:
  clip, object, posted, pasteListed, wait, hmem, pasteEvent, fdata, fevent, pasteAllowed,
  pasteGate, pasteWindow, pasteUp, cmq, out, down, pasteCount, pasteHist

screensVars == <<
  screensSubscribes, screensNewSubscribes, screens, mode, primary, current, screensSwitch,
  idle, quality, screensPc, screensGot, screensPhase, screensChan, knows, screensCount,
  screensExcused>>
soundVars == <<
  soundSubscribes, soundNewSubscribes, soundPc, mayReset, stream, pa, paOld, setting,
  toRestart, restarting, soundGate, off, soundUp, soundChan, soundWindow, soundCount,
  soundExcused>>
remoteVars == <<
  box, remotePending, retry, joining, remoteThread, framed, peer, logins, answers, tried,
  stored, remoteRemember, remoteClosed, sessions, remoteTyped, twice, late, ignored>>
menuVars == <<
  file, pend, mem, menuTyped, menuRemember, win, host, menuQ, r, menuClicks, menuHist>>
filesVars == <<
  filesSize, filesUp, filesSession, filesJob, filesReader, filesWriter, filesWire,
  filesBack, filesPart, filesFinal, filesTold, filesHit, filesLeft, filesStale>>
plainVars == <<
  copySize, copyUp, copySession, copyJob, copyReader, copyWriter, copyWire, copyBack,
  copyPart, copyFinal, copyTold, copyHit, copyLeft, copyStale>>
deleteVars == <<
  n, remote, bad, stuck, deleteClosed, files, dir, ui, dialog, deleteJob, deleteQ, req, ans,
  deleteLost, deleteAllowed, skipped, deleteTold, hushed, after>>
forwardVars == <<
  forwardListed, inbox, queues, lst, lc, conn, forwardClosed, asking, forwardClicks,
  forwardLost>>
streamVars == <<
  sent, wbuf, net, rbuf, raw, state, readable, streamCount, streamGot, failed, streamLost>>
textVars == <<
  os, old, seen, putting, textWire, greet, flag, disabled, textAllowed, shy, authorized,
  sub, svc, textEvent, copies, switches, lone, last, raced>>
pasteVars == <<
  clip, object, posted, pasteListed, wait, hmem, pasteEvent, fdata, fevent, pasteAllowed,
  pasteGate, pasteWindow, pasteUp, cmq, out, down, pasteCount, pasteHist>>

Bound(safe, live) == IF Live THEN live ELSE safe

-----------------------------------------------------------------------------
One == {CHOOSE c \in Conn : TRUE}

Screens == INSTANCE Displays WITH
  Conn <- One, Mon <- {"m1", "m2"}, MaxQueue <- Bound(2, 1), MaxChanges <- 1, MaxAsks <- 1,
  MaxFailures <- 1, subscribes <- screensSubscribes, newSubscribes <- screensNewSubscribes,
  switch <- screensSwitch, pc <- screensPc, got <- screensGot, phase <- screensPhase,
  chan <- screensChan, count <- screensCount, excused <- screensExcused
Views == INSTANCE Displays WITH
  Conn <- Conn, Mon <- {"m1", "m2"}, MaxQueue <- 1, MaxChanges <- 0, MaxAsks <- 1,
  MaxFailures <- 1, subscribes <- screensSubscribes, newSubscribes <- screensNewSubscribes,
  switch <- screensSwitch, pc <- screensPc, got <- screensGot, phase <- screensPhase,
  chan <- screensChan, count <- screensCount, excused <- screensExcused
Sound == INSTANCE Audio WITH
  Conn <- Bound(Conn, One), Dev <- {"d1", "d2"}, Backend <- "cpal", MaxQueue <- Bound(2, 1),
  MaxSwitches <- 2, MaxInputs <- 1, MaxFailures <- 1, subscribes <- soundSubscribes,
  newSubscribes <- soundNewSubscribes, pc <- soundPc, gate <- soundGate, up <- soundUp,
  chan <- soundChan, window <- soundWindow, count <- soundCount, excused <- soundExcused
Pulse == INSTANCE Audio WITH
  Conn <- One, Dev <- {"d1", "d2"}, Backend <- "pulse", MaxQueue <- 1, MaxSwitches <- 2,
  MaxInputs <- 1, MaxFailures <- 1, subscribes <- soundSubscribes,
  newSubscribes <- soundNewSubscribes, pc <- soundPc, gate <- soundGate, up <- soundUp,
  chan <- soundChan, window <- soundWindow, count <- soundCount, excused <- soundExcused
Remote == INSTANCE RemoteWindow WITH
  Files <- FALSE, MaxSessions <- 2, MaxLogins <- Bound(2, 1), pending <- remotePending,
  thread <- remoteThread, remember <- remoteRemember, closed <- remoteClosed,
  typed <- remoteTyped
RemoteFiles == INSTANCE RemoteWindow WITH
  Files <- TRUE, MaxSessions <- 2, MaxLogins <- 1, pending <- remotePending,
  thread <- remoteThread, remember <- remoteRemember, closed <- remoteClosed,
  typed <- remoteTyped
Menu == INSTANCE PeerOptions WITH
  Window <- {"w1"}, Main <- "main", Good <- "good", Bad <- "bad", MaxClicks <- 4,
  MaxQueue <- 2, typed <- menuTyped, remember <- menuRemember, q <- menuQ,
  clicks <- menuClicks, hist <- menuHist
Menus == INSTANCE PeerOptions WITH
  Window <- {"w1", "w2"}, Main <- "main", Good <- "good", Bad <- "bad", MaxClicks <- 3,
  MaxQueue <- 1, typed <- menuTyped, remember <- menuRemember, q <- menuQ,
  clicks <- menuClicks, hist <- menuHist
Files == INSTANCE FileTransferProofs WITH
  N <- 2, MaxBlocks <- Bound(2, 1), Window <- Bound(1, 2), Sessions <- Bound(2, 1),
  Sizes <- Bound({[f \in 0 .. 1 |-> 2 - f]}, [0 .. 1 -> 0 .. 1]),
  Fault <- {"refuse", "open", "read", "create", "sync", "write"}, MaxFaults <- 2,
  Old <- None, Absent <- Gone, size <- filesSize, up <- filesUp, session <- filesSession,
  job <- filesJob, reader <- filesReader, writer <- filesWriter, wire <- filesWire,
  back <- filesBack, part <- filesPart, final <- filesFinal, told <- filesTold,
  hit <- filesHit, left <- filesLeft, stale <- filesStale
Plain == INSTANCE FileTransferProofs WITH
  N <- 3, MaxBlocks <- 2, Window <- 3, Sessions <- 1, Sizes <- [0 .. 2 -> 0 .. 2],
  Fault <- {}, MaxFaults <- 0, Old <- None, Absent <- Gone, size <- copySize, up <- copyUp,
  session <- copySession, job <- copyJob, reader <- copyReader, writer <- copyWriter,
  wire <- copyWire, back <- copyBack, part <- copyPart, final <- copyFinal,
  told <- copyTold, hit <- copyHit, left <- copyLeft, stale <- copyStale
Delete == INSTANCE DeleteDir WITH
  MaxFiles <- Bound(3, 2), MayLose <- TRUE, closed <- deleteClosed, job <- deleteJob,
  q <- deleteQ, lost <- deleteLost, allowed <- deleteAllowed, told <- deleteTold
Forward == INSTANCE PortForward WITH
  Port <- {"p1"}, Target <- {"t1"}, Listener <- {"l1", "l2"}, Conn <- {"k1"},
  MaxClicks <- 2, MaxData <- Bound(2, 1), Stored <- [p1 |-> "t1"], listed <- forwardListed,
  closed <- forwardClosed, clicks <- forwardClicks, lost <- forwardLost
Forwards == INSTANCE PortForward WITH
  Port <- {"p1"}, Target <- {"t1"}, Listener <- {"l1"}, Conn <- {"k1", "k2"},
  MaxClicks <- 1, MaxData <- 0, Stored <- [p1 |-> "t1"], listed <- forwardListed,
  closed <- forwardClosed, clicks <- forwardClicks, lost <- forwardLost
Stream == INSTANCE FramedStream WITH
  Lens <- {0, 64}, MaxMsgs <- 2, Boundary <- 4, Keyed <- FALSE, Limited <- TRUE,
  RawAfter <- 2, Mac <- 1, count <- streamCount, got <- streamGot, lost <- streamLost
Sealed == INSTANCE FramedStream WITH
  Lens <- {0, 3}, MaxMsgs <- Bound(4, 3), Boundary <- 4, Keyed <- TRUE, Limited <- TRUE,
  RawAfter <- Bound(3, 2), Mac <- 1, count <- streamCount, got <- streamGot,
  lost <- streamLost
Text == INSTANCE ClipboardSync WITH
  First <- [A |-> "a", B |-> "b"], Texts <- {"t"}, MaxCopies <- Bound(2, 1),
  MaxSwitches <- 0, MaxRaces <- 1, wire <- textWire, allowed <- textAllowed,
  event <- textEvent
Paste == INSTANCE FileClipboard WITH
  Conn <- One, Host <- Gone, MaxCopies <- 2, MaxPastes <- Bound(2, 1), MaxSwitches <- 1,
  MaxGiveUps <- Bound(1, 0), listed <- pasteListed, event <- pasteEvent,
  allowed <- pasteAllowed, gate <- pasteGate, window <- pasteWindow, up <- pasteUp,
  count <- pasteCount, hist <- pasteHist
Pastes == INSTANCE FileClipboard WITH
  Conn <- Conn, Host <- Gone, MaxCopies <- 2, MaxPastes <- 2, MaxSwitches <- 0,
  MaxGiveUps <- 0, listed <- pasteListed, event <- pasteEvent, allowed <- pasteAllowed,
  gate <- pasteGate, window <- pasteWindow, up <- pasteUp, count <- pasteCount,
  hist <- pasteHist

ASSUME PartsAssumption ==
  /\ Screens!DisplaysAssumption /\ Views!DisplaysAssumption /\ Sound!AudioAssumption
  /\ Pulse!AudioAssumption /\ Remote!RemoteWindowAssumption
  /\ RemoteFiles!RemoteWindowAssumption /\ Menu!OptionsAssumption
  /\ Menus!OptionsAssumption /\ Files!TransferAssumption /\ Plain!TransferAssumption
  /\ Delete!DeleteAssumption /\ Forward!PortForwardAssumption
  /\ Forwards!PortForwardAssumption /\ Stream!StreamAssumption /\ Sealed!StreamAssumption
  /\ Text!ClipboardAssumption /\ Paste!ClipboardAssumption /\ Pastes!ClipboardAssumption

-----------------------------------------------------------------------------
partsVars == <<part, vars, screensVars, soundVars, remoteVars, menuVars, filesVars, plainVars,
               deleteVars, forwardVars, streamVars, textVars, pasteVars>>

\* Every part stands at its start; one of them is to move.
PartsInit ==
  /\ part \in Parts
  /\ Init
  /\ IF part = "displays_two" THEN Views!Init ELSE Screens!Init
  /\ part \notin {"displays", "displays_two"} => Len(screens) = 1 /\ screens[1] = "m1"
  /\ IF part = "audio_pulse" THEN Pulse!Init ELSE Sound!Init
  /\ part \notin {"audio", "audio_pulse"} => setting = "d1"
  /\ Remote!Init
  /\ part # "window" => stored = "none"
  /\ IF part = "options_two" THEN Menus!Init ELSE Menu!Init
  /\ Files!Init
  /\ part # "files" => filesUp /\ filesSize[0] = Bound(2, 1) /\ filesSize[1] = 1
  /\ Plain!Init
  /\ part # "file_copy" => copyUp /\ \A f \in DOMAIN copySize : copySize[f] = 1
  /\ Delete!Init
  /\ part # "delete" => n = 0 /\ ~remote /\ bad = {} /\ ~stuck /\ ~deleteClosed
  /\ IF part = "forward_two" THEN Forwards!Init ELSE Forward!Init
  /\ Stream!Init
  /\ Text!Init
  /\ IF part = "paste_two" THEN Pastes!Init ELSE Paste!Init

\* The others do nothing.
Still ==
  /\ UNCHANGED part
  /\ IF part = "video" THEN TRUE ELSE UNCHANGED vars
  /\ IF part \in {"displays", "displays_two"} THEN TRUE ELSE UNCHANGED screensVars
  /\ IF part \in {"audio", "audio_pulse"} THEN TRUE ELSE UNCHANGED soundVars
  /\ IF part \in {"window", "window_files"} THEN TRUE ELSE UNCHANGED remoteVars
  /\ IF part \in {"options", "options_two"} THEN TRUE ELSE UNCHANGED menuVars
  /\ IF part = "files" THEN TRUE ELSE UNCHANGED filesVars
  /\ IF part = "file_copy" THEN TRUE ELSE UNCHANGED plainVars
  /\ IF part = "delete" THEN TRUE ELSE UNCHANGED deleteVars
  /\ IF part \in {"forward", "forward_two"} THEN TRUE ELSE UNCHANGED forwardVars
  /\ IF part \in {"stream", "stream_keyed"} THEN TRUE ELSE UNCHANGED streamVars
  /\ IF part = "clipboard" THEN TRUE ELSE UNCHANGED textVars
  /\ IF part \in {"paste", "paste_two"} THEN TRUE ELSE UNCHANGED pasteVars

VideoSteps == part = "video" /\ Next /\ Still
DisplaysSteps == part = "displays" /\ Screens!Next /\ Still
ViewsSteps == part = "displays_two" /\ Views!Next /\ Still
SoundSteps == part = "audio" /\ Sound!Next /\ Still
PulseSteps == part = "audio_pulse" /\ Pulse!Next /\ Still
RemoteSteps == part = "window" /\ Remote!Next /\ Still
RemoteFilesSteps == part = "window_files" /\ RemoteFiles!Next /\ Still
MenuSteps == part = "options" /\ Menu!Next /\ Still
MenusSteps == part = "options_two" /\ Menus!Next /\ Still
FilesSteps == part = "files" /\ Files!Next /\ Still
CopySteps == part = "file_copy" /\ Plain!Next /\ Still
DeleteSteps == part = "delete" /\ Delete!Next /\ Still
ForwardSteps == part = "forward" /\ Forward!Next /\ Still
ForwardsSteps == part = "forward_two" /\ Forwards!Next /\ Still
StreamSteps == part = "stream" /\ Stream!Next /\ Still
SealedSteps == part = "stream_keyed" /\ Sealed!Next /\ Still
TextSteps == part = "clipboard" /\ Text!Next /\ Still
PasteSteps == part = "paste" /\ Paste!Next /\ Still
PastesSteps == part = "paste_two" /\ Pastes!Next /\ Still

\* The parts that may come to an end; the others go on for ever.
Ended ==
  /\ part \in {"video", "displays", "displays_two", "audio", "audio_pulse", "window",
       "window_files", "options", "options_two", "files", "file_copy", "delete", "forward",
       "forward_two", "stream", "stream_keyed", "clipboard", "paste", "paste_two"}
  /\ UNCHANGED partsVars

PartsNext ==
  \/ VideoSteps \/ DisplaysSteps \/ ViewsSteps \/ SoundSteps \/ PulseSteps \/ RemoteSteps
  \/ RemoteFilesSteps \/ MenuSteps \/ MenusSteps \/ FilesSteps \/ CopySteps \/ DeleteSteps
  \/ ForwardSteps \/ ForwardsSteps \/ StreamSteps \/ SealedSteps \/ TextSteps \/ PasteSteps
  \/ PastesSteps \/ Ended

PartsSpec == PartsInit /\ [][PartsNext]_partsVars

-----------------------------------------------------------------------------
(* Safety: the session. *)

\* What is seen and heard is what was told: a frame has the geometry the window goes by
\* (video_service.rs, run, with client.rs), a sound is decoded in the format it was made
\* in (audio_service.rs); a connection that was closed is sent no frame.
MediaAsTold ==
  /\ part = "video" => TypeOK /\ ViewersAreSubscribed
  /\ part = "displays" => Screens!TypeOK /\ Screens!FrameAsTold
  /\ part = "displays_two" => Views!FrameAsTold
  /\ part = "audio" => Sound!TypeOK /\ Sound!PlayedAsMade
  /\ part = "audio_pulse" => Pulse!PlayedAsMade

\* A window joins no session that runs, its menu shows what the host does, and what is
\* kept of a peer in its file is what the user wants kept (ui/remote.rs, client.rs,
\* LoginConfigHandler).
WindowIsTrue ==
  /\ part = "window" => Remote!TypeOK /\ Remote!TimerIsAfter
  /\ part = "options" => Menu!TypeOK /\ Menu!MenuIsTrue /\ Menu!StaysListed
  /\ part = "options_two" => Menus!ForgottenStays /\ Menus!OnlyRightIsKept

-----------------------------------------------------------------------------
(* Safety: transfers. *)

\* A file that is not whole has its cause on record, and one nobody was told of comes from
\* this machine (fs.rs, TransferJob); only what the user allowed is deleted, one file at a
\* time, and a success that is shown is one (ui/remote.rs, io_loop).
FilesAreWhole ==
  /\ part = "files" => Files!TypeOK /\ Files!DamageIsExplained /\ Files!SilentIsLocal /\ Files!PartsAreLive
  /\ part = "delete" => Delete!TypeOK /\ Delete!OneAtATime /\ Delete!OnlyAllowed /\ Delete!CancelStops /\ Delete!FinishedIsTrue

\* What one end writes comes out at the other, in order and whole: the messages of a
\* framed stream (tcp.rs, bytes_codec.rs), the bytes of a tunnel; a forward that is
\* removed is told, and a login goes out with the password that was typed for it
\* (port_forward.rs).
StreamsKeepOrder ==
  /\ part = "stream" => Stream!TypeOK /\ Stream!Faithful
  /\ part = "stream_keyed" => Sealed!Faithful /\ Sealed!FailsOnlyAfterLoss
  /\ part = "forward" => Forward!TypeOK /\ Forward!BytesInOrder /\ Forward!RemovedIsTold
  /\ part = "forward_two" => Forwards!WrongIsTyped

\* A text copied at rest is on both sides at rest again (clipboard_service.rs, client.rs);
\* a paste takes the answer to its own request, and reads the files it has listed
\* (cliprdr.rs and wf_cliprdr.c).
ClipboardsAgree ==
  /\ part = "clipboard" => Text!TypeOK /\ Text!CopyArrives /\ Text!LoginGives
  /\ part = "paste" => Paste!TypeOK /\ Paste!AnswersMatch /\ Paste!ContentsAreListed
  /\ part = "paste_two" => Pastes!AnswersMatch /\ Pastes!ContentsAreListed /\ Pastes!AnswersGoToAskers

\* What no step does: to store a wrong password in place of another, or to turn an option
\* to what the menu showed already.
NeverUnasked ==
  /\ [][(part \in {"window", "window_files"}) => Remote!WrongStaysOut]_partsVars
  /\ [][part = "options" => Menu!ClickShows]_partsVars

\* A transfer in which nothing fails keeps the promise of FileCopy, and in no transfer is
\* anything taken from what is under a file's name.
PromiseIsKept == Plain!Promise /\ Files!NamesGrow

-----------------------------------------------------------------------------
(* Liveness, under the fairness of the part that moves. *)

\* Who joins is sent a frame, a refresh is answered with a key frame, the display and the
\* device that were chosen come to be captured, and a sound is heard.
MediaGoesOn ==
  /\ part = "video" => (Fairness => ViewersAreServed /\ RefreshIsAnswered)
  /\ part = "displays" => (Screens!Fairness => Screens!SwitchIsDone)
  /\ part = "audio" => (Sound!Fairness => Sound!Heard)
  /\ part = "audio_pulse" => (Pulse!Fairness => Pulse!Heard /\ Pulse!InputTakesEffect)

\* A window does not freeze in a reconnect, and the boxes of a session that goes on go.
WindowSettles ==
  /\ part = "window" => (Remote!Fairness => Remote!Returns /\ Remote!BoxGoes)
  /\ part = "window_files" => (RemoteFiles!Fairness => RemoteFiles!BoxGoes)

\* A transfer comes to rest and its user is told; the deletion of a directory ends; what
\* was put in a stream arrives; a peer that falls silent in a login is given up; two
\* clipboards do not echo a text for ever, and a paste gets its answer.
TransfersEnd ==
  /\ part = "files" => (Files!Fairness => Files!ComesToRest /\ Files!UserIsTold)
  /\ part = "delete" => (Delete!Fairness => Delete!Settles)
  /\ part = "stream_keyed" => (Sealed!Fairness => Sealed!Arrives)
  /\ part = "forward" => (Forward!Fairness => Forward!SilentIsGivenUp)
  /\ part = "clipboard" => (Text!Fairness => Text!Settles)
  /\ part = "paste" => (Paste!Fairness => Paste!PasteEnds)
=============================================================================
