------------------------------ MODULE Session ------------------------------
(***************************************************************************)
(* One connection to the controlled side (connection.rs): the loop of      *)
(* Connection::start, the services it is subscribed to (server.rs), and    *)
(* its entry in the window of the connection manager (ui/cm.rs, cm.tis),   *)
(* which it reaches through start_ipc and two queues.                      *)
(*                                                                         *)
(* Of a login request there remain its kind, its option and what the       *)
(* password is worth (LoginFailures); of an option message, one option.    *)
(* Left out: mouse and keyboard, transfers (FileTransfer), chat, delays of *)
(* the stream, displays other than x11, and locking the screen at the end. *)
(***************************************************************************)
EXTENDS Naturals, Sequences

CONSTANTS
  StoredNo,    \* Config::get_peer_permission(peer, "file") is "0"
  Fault,       \* what may go wrong: a subset of {"oplog", "display"}
  Granted,     \* bound: the permissions that the configuration may give
  MaxEvents    \* bound: login requests, options and clicks together

Perm == {"keyboard", "clipboard", "audio", "file"}
Option == {"cursor", "mute", "noclip", "files"}
Services == {"video", "audio", "clipboard", "cursor", "pos"}

SessionAssumption ==
  /\ StoredNo \in BOOLEAN
  /\ Granted \subseteq SUBSET Perm /\ MaxEvents \in Nat

VARIABLES
  phase,   \* "new", "open" (in the loop), "tunnel" or "ended"
  exit,    \* how it ended
  perm,    \* keyboard, clipboard, audio, file
  opt,     \* the options of the peer
  auth,    \* authorized
  kind,    \* file_transfer, port_forward_socket: set by a login request
  subs,    \* the services it is subscribed to
  entries, \* what the video service keeps for it: IMAGE_QUALITIES, TEST_LATENCIES
  stale,   \* latest_active_time is further back than the policy allows
  gone,    \* the peer has fallen silent
  closes,  \* history: calls of on_close
  switched,\* history: the keyboard was switched after the clipboard was last decided
  up, down,\* the queues to and from the connection manager
  cm,      \* the manager's side: "starting", "waiting" (no login yet), "shown", "gone"
  ui,      \* the entry in its window: accepted, permissions
  unsent,  \* history: the window switched the audio off before it could say so
  clip,    \* set_conn_enabled: files may be copied by clipboard
  events   \* login requests, options and clicks so far

life == <<phase, exit, closes>>
flags == <<perm, opt, auth, kind>>
video == <<entries, stale, gone>>
side == <<cm, ui, unsent, clip>>
vars == <<life, flags, subs, video, switched, up, down, side, events>>

Init ==
  /\ phase = "new" /\ exit = "none" /\ closes = 0
  /\ perm \in Granted /\ opt = {} /\ auth = FALSE /\ kind = {}
  /\ subs = {} /\ entries = {} /\ stale = FALSE /\ gone = FALSE
  /\ switched = FALSE /\ up = <<>> /\ down = <<>>
  /\ cm = "starting" /\ ui = [auth |-> FALSE, perm |-> {}] /\ unsent = FALSE /\ clip = FALSE
  /\ events = 0

-----------------------------------------------------------------------------
(* What the flags allow. *)

ClipboardAllowed(p, o) == "clipboard" \in p /\ "noclip" \notin o /\ "keyboard" \in p
AudioAllowed(p, o) == "audio" \in p /\ "mute" \notin o
CursorAllowed(p, o) == "keyboard" \in p \/ "cursor" \in o
FilesAllowed(p, o) == "file" \in p /\ "files" \in o

\* Server::subscribe.
Sub(s, name, on) == IF on THEN s \cup {name} ELSE s \ {name}

Tell(m) == up' = IF cm = "gone" THEN up ELSE Append(up, m)

-----------------------------------------------------------------------------
(* The end. *)

\* on_close, then the lines behind the loop. Its first act may panic.
OnClose(how) ==
  /\ closes' = closes + 1
  /\ phase' = "ended" /\ exit' = how
  /\ subs' = {} /\ kind' = kind \ {"tunnel"}
  /\ Tell([m |-> "close"]) /\ down' = <<>>
  /\ UNCHANGED <<perm, opt, auth, switched, side, events, stale, gone>>

AfterLoop == entries' = {}

\* The task panics at File::create("oplog.ini").unwrap(): nothing is undone.
Panics ==
  /\ "oplog" \in Fault
  /\ phase' = "ended" /\ exit' = "panic" /\ down' = <<>>
  /\ UNCHANGED <<closes, flags, subs, entries, switched, up, side, events, stale, gone>>

\* The cm asks for it, the stream is closed or fails, a read job fails, 30 s of silence.
CloseLoop(how) ==
  /\ phase = "open"
  /\ (OnClose(how) /\ AfterLoop) \/ Panics

Fails == CloseLoop("failed")

\* Mutant of Timeout: only who is let in is timed.
Timeout_Auth == gone /\ auth /\ CloseLoop("timeout")

Timeout == gone /\ CloseLoop("timeout")

\* The idle policy: it closes and returns, past the lines behind the loop.
IdleOut ==
  /\ phase = "open" /\ stale
  /\ (OnClose("idle") /\ UNCHANGED entries) \/ Panics

\* try_port_forward_loop always ends with an error, and that with on_close.
TunnelEnds ==
  /\ phase = "tunnel"
  /\ (OnClose("tunnel") /\ UNCHANGED entries) \/ Panics

\* on_message was false, and there is no tunnel: no on_close.
Refused ==
  /\ phase' = "ended" /\ exit' = "refused"
  /\ AfterLoop
  /\ UNCHANGED <<closes, subs, up>>

\* The loop is left for the tunnel.
ToTunnel ==
  /\ phase' = "tunnel" /\ AfterLoop
  /\ UNCHANGED <<exit, closes>>

-----------------------------------------------------------------------------
(* Its beginning and what the peer sends. *)

\* on_open: flagex is not "1", or the whitelist keeps the address out.
Open ==
  /\ phase = "new"
  /\ \/ phase' = "open" /\ UNCHANGED exit
     \/ phase' = "ended" /\ exit' = "closedDoor"
  /\ UNCHANGED <<closes, flags, subs, video, switched, up, down, side, events>>

Subscribed(s, o, x) ==
  CASE x = "cursor" -> Sub(Sub(s, "cursor", CursorAllowed(perm, o)), "pos", "cursor" \in o)
    [] x = "mute" -> Sub(s, "audio", AudioAllowed(perm, o))
    [] x = "noclip" -> Sub(s, "clipboard", ClipboardAllowed(perm, o))
    [] OTHER -> s

\* Mutant of OptionUpdate: the window is not told that files were switched.
OptionUpdate_Quiet(x, o, q) ==
  /\ opt' = o
  /\ subs' = Subscribed(subs, o, x)
  /\ switched' = IF x = "noclip" THEN FALSE ELSE switched
  /\ entries' = IF q THEN entries \cup {"quality"} ELSE entries \ {"quality"}
  /\ up' = up

\* update_option: option x becomes o; a message without a quality takes the old one away.
OptionUpdate(x, o, q) ==
  /\ opt' = o
  /\ subs' = Subscribed(subs, o, x)
  /\ switched' = IF x = "noclip" THEN FALSE ELSE switched
  /\ entries' = IF q THEN entries \cup {"quality"} ELSE entries \ {"quality"}
  /\ IF x = "files" THEN Tell([m |-> "clip", on |-> FilesAllowed(perm, o)]) ELSE up' = up

\* The permissions that add_connection is called with.
Joined(s) ==
  s \cup {"video"}
    \cup (IF CursorAllowed(perm, opt) THEN {"cursor"} ELSE {})
    \cup (IF "cursor" \in opt THEN {"pos"} ELSE {})
    \cup (IF ClipboardAllowed(perm, opt) THEN {"clipboard"} ELSE {})
    \cup (IF AudioAllowed(perm, opt) THEN {"audio"} ELSE {})

\* Mutant of LogonResponse: the socket of a tunnel is looked at too late.
LogonResponse_NoTunnel(k) ==
  /\ auth' = TRUE /\ stale' = FALSE
  /\ subs' = IF "files" \in k THEN subs ELSE Joined(subs)
  /\ switched' = FALSE

\* send_logon_response.
LogonResponse(k) ==
  IF auth \/ "tunnel" \in k THEN UNCHANGED <<auth, subs, stale, switched>>
  ELSE /\ auth' = TRUE /\ stale' = FALSE
       /\ \/ subs' = (IF "files" \in k THEN subs ELSE Joined(subs))
             /\ switched' = (IF "files" \in k \/ (switched /\ "clipboard" \in subs) THEN switched ELSE FALSE)
          \/ "display" \in Fault /\ "files" \notin k /\ UNCHANGED <<subs, switched>>

\* try_start_cm.
LoginShown(authorized) ==
  [m |-> "login", auth |-> authorized, perm |-> perm, clip |-> FilesAllowed(perm, opt)]

\* A login request changes what it must be before the password is looked at: what an
\* earlier one set stays set.
LoginKind(k, reached) ==
  kind' = kind \cup (IF k = "files" THEN {"files"} ELSE {})
               \cup (IF k = "tunnel" /\ reached THEN {"tunnel"} ELSE {})

Login(k, word, reached) ==
  /\ phase = "open" /\ ~gone /\ ~auth /\ events < MaxEvents
  /\ events' = events + 1
  /\ UNCHANGED <<perm, opt, gone, down, side>>
  /\ k = "files" /\ StoredNo => word = "denied"
  /\ \* not permitted: enable-file-transfer or "0" for this peer, enable-tunnel
     \/ /\ word = "denied" /\ k # "desktop"
        /\ Refused /\ UNCHANGED <<kind, auth, stale, switched>>
     \/ /\ word = "error"
        /\ LoginKind(k, reached)
        /\ UNCHANGED <<life, auth, subs, entries, stale, switched, up>>
     \/ /\ word = "ask"
        /\ LoginKind(k, reached)
        /\ Tell(LoginShown(FALSE))
        /\ UNCHANGED <<life, auth, subs, entries, stale, switched>>
     \/ /\ word = "right"
        /\ LoginKind(k, reached)
        /\ LogonResponse(kind')
        /\ Tell(LoginShown(TRUE))
        /\ \/ /\ "tunnel" \in kind' /\ ToTunnel
           \/ /\ "tunnel" \notin kind' /\ UNCHANGED <<life, entries>>
           \/ /\ "oplog" \in Fault /\ phase' = "ended" /\ exit' = "panic" /\ UNCHANGED <<closes, entries>>

\* An option is turned over: with a login request (one that is refused, say) at any time, alone once
\* authorized.
SetOption(x, q, withLogin) ==
  /\ phase = "open" /\ ~gone /\ events < MaxEvents
  /\ withLogin \/ auth
  /\ events' = events + 1
  /\ OptionUpdate(x, IF x \in opt THEN opt \ {x} ELSE opt \cup {x}, q)
  /\ stale' = (stale /\ withLogin)
  /\ UNCHANGED <<life, perm, auth, kind, gone, down, side>>

\* A file action of an authorized file transfer, any other message, an answer to test_delay.
FileAction ==
  /\ phase = "open" /\ ~gone /\ auth /\ "files" \in kind
  /\ Panics

Message ==
  /\ phase = "open" /\ ~gone /\ auth
  /\ stale' = FALSE
  /\ UNCHANGED <<life, flags, subs, entries, gone, switched, up, down, side, events>>

TestDelay ==
  /\ phase = "open" /\ ~gone
  /\ entries' = entries \cup {"latency"}
  /\ UNCHANGED <<life, flags, subs, stale, gone, switched, up, down, side, events>>

\* Time passes without a message that events; the peer vanishes.
GrowsStale ==
  /\ phase = "open" /\ auth /\ ~stale /\ stale' = TRUE
  /\ UNCHANGED <<life, flags, subs, entries, gone, switched, up, down, side, events>>

Vanish ==
  /\ phase \in {"open", "tunnel"} /\ ~gone /\ gone' = TRUE
  /\ UNCHANGED <<life, flags, subs, entries, stale, switched, up, down, side, events>>

-----------------------------------------------------------------------------
(* What the connection manager sends. *)

Command(m) == phase = "open" /\ down # <<>> /\ Head(down).m = m /\ down' = Tail(down)

Authorize ==
  /\ phase = "open" /\ down # <<>> /\ Head(down).m = "authorize" /\ down' = Tail(down)
  /\ LogonResponse(kind)
  /\ IF "tunnel" \in kind THEN ToTunnel ELSE UNCHANGED <<life, entries>>
  /\ UNCHANGED <<perm, opt, kind, gone, up, side, events>>

AuthorizePanics ==
  /\ Command("authorize") /\ "oplog" \in Fault
  /\ LogonResponse(kind)
  /\ phase' = "ended" /\ exit' = "panic"
  /\ UNCHANGED <<closes, perm, opt, kind, entries, gone, up, side, events>>

CloseRequested ==
  /\ phase = "open" /\ down # <<>> /\ Head(down).m = "close"
  /\ (OnClose("asked") /\ AfterLoop) \/ Panics

\* SwitchPermission: the clipboard is not decided again when the keyboard is switched.
SwitchPermission ==
  /\ Command("switch")
  /\ LET n == Head(down).name
         p == IF Head(down).on THEN perm \cup {n} ELSE perm \ {n}
     IN /\ perm' = p
        /\ subs' = CASE n = "keyboard" -> Sub(subs, "cursor", CursorAllowed(p, opt))
                     [] n = "clipboard" -> Sub(subs, "clipboard", ClipboardAllowed(p, opt))
                     [] n = "audio" -> Sub(subs, "audio", AudioAllowed(p, opt))
                     [] OTHER -> subs
        /\ switched' = CASE n = "keyboard" -> TRUE
                         [] n = "clipboard" -> FALSE
                         [] OTHER -> switched
        /\ IF n = "file" THEN Tell([m |-> "clip", on |-> FilesAllowed(p, opt)]) ELSE up' = up
  /\ UNCHANGED <<life, opt, auth, kind, video, side, events>>

-----------------------------------------------------------------------------
(* The connection manager: its task for this connection and its window. *)

\* start_ipc reaches it, or gives up: the messages go nowhere then.
Connects(ok) ==
  /\ cm = "starting"
  /\ cm' = IF ok THEN "waiting" ELSE "gone"
  /\ up' = IF ok THEN up ELSE <<>>
  /\ UNCHANGED <<life, flags, subs, video, switched, down, ui, unsent, clip, events>>

\* What is sent to a connection that has ended is lost.
Sends(ms) == IF phase = "ended" THEN down ELSE down \o ms

AudioOff == [m |-> "switch", name |-> "audio", on |-> FALSE]

\* Login: the first one makes the entry, a later one only says whether it is authorized.
\* To show it, the window switches the audio off; its sender may not be there yet.
Shows(sent) ==
  /\ cm \in {"waiting", "shown"} /\ up # <<>> /\ Head(up).m = "login" /\ up' = Tail(up)
  /\ cm' = "shown"
  /\ ui' = [auth |-> Head(up).auth,
            perm |-> (IF cm = "shown" THEN ui.perm
                      ELSE Head(up).perm \ IF StoredNo THEN {"file"} ELSE {}) \ {"audio"}]
  /\ clip' = Head(up).clip
  /\ sent \/ cm = "waiting"
  /\ unsent' = ~sent
  /\ down' = IF sent THEN Sends(<<AudioOff>>) ELSE down
  /\ UNCHANGED <<life, flags, subs, video, switched, events>>

\* ClipboardFileEnabled; before the login it is for connection 0.
ClipEnabled ==
  /\ cm \in {"waiting", "shown"} /\ up # <<>> /\ Head(up).m = "clip" /\ up' = Tail(up)
  /\ clip' = IF cm = "shown" THEN Head(up).on ELSE clip
  /\ UNCHANGED <<life, flags, subs, video, switched, down, cm, ui, unsent, events>>

\* Close, and the stream that ends when the connection is dropped: remove_connection.
CmCloses ==
  /\ cm \in {"waiting", "shown"} /\ up # <<>> /\ Head(up).m = "close"
  /\ cm' = "gone" /\ up' = <<>> /\ clip' = FALSE
  /\ UNCHANGED <<life, flags, subs, video, switched, down, ui, unsent, events>>

CmDropped ==
  /\ cm \in {"waiting", "shown"} /\ up = <<>> /\ phase = "ended"
  /\ cm' = "gone"
  /\ UNCHANGED <<life, flags, subs, video, switched, up, down, ui, unsent, clip, events>>

\* The user clicks: Accept, Disconnect or Dismiss, a permission.
Clicks(ms, u) ==
  /\ cm = "shown" /\ events < MaxEvents
  /\ events' = events + 1
  /\ down' = Sends(Append(ms, AudioOff))
  /\ ui' = u /\ unsent' = FALSE
  /\ UNCHANGED <<life, flags, subs, video, switched, up, cm, clip>>

Accept == ~ui.auth /\ Clicks(<<[m |-> "authorize"]>>, [ui EXCEPT !.auth = TRUE])

Disconnect == Clicks(<<[m |-> "close"]>>, ui)

Toggle(n) ==
  Clicks(<<[m |-> "switch", name |-> n, on |-> n \notin ui.perm]>>,
         [ui EXCEPT !.perm = IF n \in @ THEN @ \ {n} ELSE @ \cup {n}])

Peer ==
  \/ \E k \in {"desktop", "files", "tunnel"}, w \in {"denied", "error", "ask", "right"}, r \in BOOLEAN : Login(k, w, r)
  \/ \E x \in Option, q, l \in BOOLEAN : SetOption(x, q, l)
  \/ FileAction \/ Message \/ TestDelay \/ Vanish

Manager ==
  \/ \E b \in BOOLEAN : Connects(b) \/ Shows(b)
  \/ ClipEnabled \/ CmCloses \/ CmDropped

User == Accept \/ Disconnect \/ \E n \in {"keyboard", "clipboard", "file"} : Toggle(n)

Commands == Authorize \/ AuthorizePanics \/ CloseRequested \/ SwitchPermission

Next ==
  \/ Open \/ Fails \/ Timeout \/ IdleOut \/ TunnelEnds \/ GrowsStale
  \/ Commands \/ Peer \/ Manager \/ User

\* The loop is run and its timers tick; the tasks of the manager are run; the prelogin
\* ends. No one has to log in, click or hang up.
Fairness ==
  /\ WF_vars(Open) /\ WF_vars(Timeout) /\ WF_vars(gone /\ TunnelEnds)
  /\ WF_vars(Manager)

Spec == Init /\ [][Next]_vars /\ Fairness

-----------------------------------------------------------------------------
Ended == phase = "ended"
Quiet == up = <<>> /\ down = <<>>

\* Every variable keeps its type.
TypeOK ==
  /\ phase \in {"new", "open", "tunnel", "ended"}
  /\ exit \in {"none", "closedDoor", "refused", "failed", "timeout", "idle", "asked", "tunnel", "panic"}
  /\ Ended <=> exit # "none"
  /\ perm \subseteq Perm /\ opt \subseteq Option /\ kind \subseteq {"files", "tunnel"}
  /\ subs \subseteq Services /\ entries \subseteq {"quality", "latency"}
  /\ {auth, stale, gone, switched, unsent, clip} \subseteq BOOLEAN
  /\ cm \in {"starting", "waiting", "shown", "gone"}
  /\ ui.auth \in BOOLEAN /\ ui.perm \subseteq Perm

\* on_close runs once, except after the exits that do not come to it (refused, panic and
\* the door of on_open); a tunnel is closed once, too, though two places could do it.
ClosedOnce ==
  /\ closes <= 1
  /\ Ended => (closes = 1 <=> exit \notin {"closedDoor", "refused", "panic"})

\* What an ended connection leaves behind: subscriptions only where on_close did not run,
\* entries of the video service only where the loop was left by return or by a panic, the
\* clipboard's permission only where the manager was not told.
LeftBehind ==
  /\ Ended /\ subs # {} => exit \in {"refused", "panic"}
  /\ Ended /\ entries # {} => exit \in {"idle", "panic"}
  /\ cm = "gone" /\ clip => exit \in {"refused", "panic"}

\* A tunnel is never also a session: once a login request has opened the socket, no later
\* one of the same connection makes it authorized (send_logon_response).
TunnelIsNotSession == "tunnel" \in kind => ~auth /\ "video" \notin subs

\* Within a session the subscriptions are those its permissions and options allow, whatever
\* order they were switched in; the clipboard only until the keyboard is switched.
SubsFollowFlags ==
  phase = "open" /\ auth /\ "video" \in subs =>
    /\ "audio" \in subs <=> AudioAllowed(perm, opt)
    /\ "cursor" \in subs <=> CursorAllowed(perm, opt)
    /\ "pos" \in subs <=> "cursor" \in opt
    /\ ~switched => ("clipboard" \in subs <=> ClipboardAllowed(perm, opt))

\* The window tells the truth once the queues are empty: who it shows as let in is, and so
\* are the permissions; but for files that were refused to the peer before, and the audio
\* it could not yet switch off.
WindowIsTrue ==
  cm = "shown" /\ Quiet /\ phase = "open" =>
    /\ ui.auth => auth
    /\ \A n \in Perm : (n \in ui.perm <=> n \in perm)
                         \/ (n = "file" /\ StoredNo) \/ (n = "audio" /\ unsent)
    /\ clip = FilesAllowed(perm, opt)

\* A peer that falls silent is noticed, and an entry leaves the window with its connection.
GoneIsNoticed == gone ~> Ended
EntryLeaves == Ended /\ cm = "shown" ~> cm = "gone"
=============================================================================
