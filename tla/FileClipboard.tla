--------------------------- MODULE FileClipboard ---------------------------
(***************************************************************************)
(* Files copied on one machine and pasted on another (Windows):            *)
(* libs/clipboard with its window thread (wf_cliprdr.c), clipboard_file.rs,*)
(* the task of the connection manager that serves the host's clipboard     *)
(* for all connections (ui/cm.rs), the connections' gates                  *)
(* (server/connection.rs) and the window of a controlling side             *)
(* (ui/remote.rs).                                                         *)
(*                                                                         *)
(* A machine that copies announces it; the others put an object on their   *)
(* clipboard that names the connection.  A paste asks that connection for  *)
(* the list of files and then for their contents, and the window thread    *)
(* waits for each answer: for the next one that comes, whoever sent it.    *)
(*                                                                         *)
(* It begins when all are connected and all have the files enabled.  A set *)
(* of copied files is a number; numbers are not used twice.                *)
(***************************************************************************)
EXTENDS Naturals, Sequences, FiniteSets

CONSTANTS
  Conn,      \* the connections, and the controlling sides' windows
  Host,
  None,
  MaxCopies, MaxPastes, MaxSwitches, MaxGiveUps  \* bounds: what users do

ClipboardAssumption ==
  /\ Host \notin Conn /\ None \notin Conn \cup {Host} \cup Nat
  /\ MaxCopies \in Nat /\ MaxPastes \in Nat /\ MaxSwitches \in Nat /\ MaxGiveUps \in Nat

Machine == Conn \cup {Host}

VARIABLES
  clip,    \* the machine's clipboard: its own files, a number; an object, the machine it names; None
  object,  \* data_obj of its context: the machine it names
  posted,  \* messages to its window thread: "update", or the machine an object is to name
  listed,  \* file_names: the files its context has listed last
  wait,    \* the paste at the machine: where it is, from whom, its requests, its list
  hmem, event,    \* the list that came, and response_data_event
  fdata, fevent,  \* the contents that came, and req_fevent
  allowed, \* CLIP_CONN_ENABLED of the host
  gate,    \* the connection: file, enable_file_transfer, and whether it is there
  window,  \* the controlling side: SERVER_FILE_TRANSFER_ENABLED, enable_file_transfer, its context
  up, cmq, \* messages from a controlling side, and from its connection to the host's context
  out, down, \* messages from the host's context, and from the connection to the controlling side
  count,   \* how much the users have done
  hist     \* history, see below

context == <<clip, object, posted, listed, wait, hmem, event, fdata, fevent>>
queues == <<up, cmq, out, down>>
vars == <<context, allowed, gate, window, queues, count, hist>>

Idle == [st |-> "idle", from |-> None, req |-> 0, list |-> None]

\* hist.gaveup: a machine gave up waiting.  hist.relisted: it listed other files than before.
\* hist.cut: something between a connection's two ends was switched off, or the connection ended.
\* hist.done: the last paste of a machine, what it read and what answered.
Init ==
  /\ clip = [m \in Machine |-> None] /\ object = [m \in Machine |-> None]
  /\ posted = [m \in Machine |-> <<>>] /\ listed = [m \in Machine |-> None]
  /\ wait = [m \in Machine |-> Idle]
  /\ hmem = [m \in Machine |-> None] /\ event = [m \in Machine |-> FALSE]
  /\ fdata = [m \in Machine |-> None] /\ fevent = [m \in Machine |-> FALSE]
  /\ allowed = [c \in Conn |-> TRUE]
  /\ gate = [c \in Conn |-> [file |-> TRUE, option |-> TRUE, there |-> TRUE]]
  /\ window = [c \in Conn |-> [server |-> TRUE, option |-> TRUE, context |-> "on"]]
  /\ up = [c \in Conn |-> <<>>] /\ cmq = [c \in Conn |-> <<>>]
  /\ out = [c \in Conn |-> <<>>] /\ down = [c \in Conn |-> <<>>]
  /\ count = [copies |-> 0, pastes |-> 0, switches |-> 0, giveups |-> 0, requests |-> 0]
  /\ hist = [gaveup |-> [m \in Machine |-> FALSE], relisted |-> [m \in Machine |-> FALSE],
             cut |-> [c \in Conn |-> FALSE], done |-> [m \in Machine |-> None]]

-----------------------------------------------------------------------------
(* What the context sends.                                                 *)

\* The callbacks client_*, the channel, and who reads it: cmd_inner_send at the host, the
\* io loop of a window, which sends it as clip_2_msg says.
SendTo(m, c, msg) ==
  IF m = Host THEN out' = [out EXCEPT ![c] = Append(@, msg)] /\ UNCHANGED up
    ELSE up' = [up EXCEPT ![m] = Append(@, msg)] /\ UNCHANGED out

\* An answer has the number of the connection that asked.
Reply(m, c, msg) == SendTo(m, c, msg)

\* client_format_list: the number is 0, which stands for all.
Announce(m) ==
  IF m = Host THEN out' = [d \in Conn |-> IF gate[d].there THEN Append(out[d], [k |-> "formats"]) ELSE out[d]] /\ UNCHANGED up
    ELSE SendTo(m, Host, [k |-> "formats"])

-----------------------------------------------------------------------------
(* The window thread: it does nothing else while it waits.                 *)

Waiting(m) == wait[m].st \in {"list", "data"}
HasContext(m) == m = Host \/ window[m].context # "off"

\* The user copies files.
Copy(m) ==
  /\ count.copies < MaxCopies
  /\ count' = [count EXCEPT !.copies = @ + 1]
  /\ clip' = [clip EXCEPT ![m] = count.copies + 1]
  /\ posted' = IF HasContext(m) THEN [posted EXCEPT ![m] = Append(@, "update")] ELSE posted
  /\ UNCHANGED <<object, listed, wait, hmem, event, fdata, fevent, allowed, gate, window, queues, hist>>

\* WM_CLIPBOARDUPDATE, cliprdr_send_format_list: what is not its own object is announced.
Update(m) ==
  /\ posted[m] # <<>> /\ Head(posted[m]) = "update" /\ ~Waiting(m)
  /\ posted' = [posted EXCEPT ![m] = Tail(@)]
  /\ hmem' = [hmem EXCEPT ![m] = IF clip[m] \in Machine THEN @ ELSE None]
  /\ IF clip[m] \in Nat THEN Announce(m) ELSE UNCHANGED <<up, out>>
  /\ UNCHANGED <<clip, object, listed, wait, event, fdata, fevent, allowed, gate, window, cmq, down, count, hist>>

\* OLE_SETCLIPBOARD.
SetClipboard(m) ==
  /\ posted[m] # <<>> /\ Head(posted[m]) \in Machine /\ ~Waiting(m)
  /\ posted' = [posted EXCEPT ![m] = Tail(@)]
  /\ object' = [object EXCEPT ![m] = Head(posted[m])]
  /\ clip' = [clip EXCEPT ![m] = Head(posted[m])]
  /\ UNCHANGED <<listed, wait, hmem, event, fdata, fevent, allowed, gate, window, queues, count, hist>>

\* check_enabled: connection 0 always is.
CheckEnabled(m, c) == m = Host => allowed[c]

\* CliprdrDataObject_GetData, cliprdr_send_data_request: the list of files is asked for.
Paste(m) ==
  /\ clip[m] \in Machine /\ object[m] = clip[m] /\ wait[m].st = "idle"
  /\ CheckEnabled(m, clip[m])
  /\ count.pastes < MaxPastes
  /\ count' = [count EXCEPT !.pastes = @ + 1, !.requests = @ + 1]
  /\ wait' = [wait EXCEPT ![m] = [st |-> "list", from |-> clip[m], req |-> count.requests + 1, list |-> None]]
  /\ SendTo(m, clip[m], [k |-> "askList", req |-> count.requests + 1])
  /\ UNCHANGED <<clip, object, posted, listed, hmem, event, fdata, fevent, allowed, gate, window, cmq, down, hist>>

\* The streams are made, or the paste fails.
GotList(m, list) ==
  wait' = [wait EXCEPT ![m] = IF list = None THEN Idle ELSE [@ EXCEPT !.st = "listed", !.list = list]]

\* Mutant of ListReady: the event is not reset.
ListReady_Set(m) ==
  /\ wait[m].st = "list" /\ event[m]
  /\ GotList(m, hmem[m])
  /\ UNCHANGED <<event, clip, object, posted, listed, hmem, fdata, fevent, allowed, gate, window, queues, count, hist>>

\* The wait for the list ends.
ListReady(m) ==
  /\ wait[m].st = "list" /\ event[m]
  /\ event' = [event EXCEPT ![m] = FALSE]
  /\ GotList(m, hmem[m])
  /\ UNCHANGED <<clip, object, posted, listed, hmem, fdata, fevent, allowed, gate, window, queues, count, hist>>

\* CliprdrStream_Read, cliprdr_send_request_filecontents.
Read(m) ==
  /\ wait[m].st = "listed"
  /\ count' = [count EXCEPT !.requests = @ + 1]
  /\ wait' = [wait EXCEPT ![m].st = "data", ![m].req = count.requests + 1]
  /\ SendTo(m, wait[m].from, [k |-> "askData", req |-> count.requests + 1])
  /\ UNCHANGED <<clip, object, posted, listed, hmem, event, fdata, fevent, allowed, gate, window, cmq, down, hist>>

GotData(m, data) ==
  /\ wait' = [wait EXCEPT ![m] = Idle]
  /\ hist' = [hist EXCEPT !.done[m] = IF data = None THEN None
                 ELSE [from |-> wait[m].from, list |-> wait[m].list, data |-> data, req |-> wait[m].req],
               !.gaveup[m] = @ \/ ~fevent[m]]

\* The wait for the contents ends.
DataReady(m) ==
  /\ wait[m].st = "data" /\ fevent[m]
  /\ fevent' = [fevent EXCEPT ![m] = FALSE]
  /\ GotData(m, fdata[m])
  /\ UNCHANGED <<clip, object, posted, listed, hmem, event, fdata, allowed, gate, window, queues, count>>

\* Three minutes have passed, or the connection is not enabled any more.
MayGiveUp(m) ==
  \/ ~CheckEnabled(m, wait[m].from) /\ UNCHANGED count
  \/ count.giveups < MaxGiveUps /\ count' = [count EXCEPT !.giveups = @ + 1]

\* Nothing came, and what came last is taken.
GiveUpList(m) ==
  /\ wait[m].st = "list" /\ ~event[m] /\ MayGiveUp(m)
  /\ GotList(m, hmem[m])
  /\ hist' = [hist EXCEPT !.gaveup[m] = TRUE]
  /\ UNCHANGED <<clip, object, posted, listed, hmem, event, fdata, fevent, allowed, gate, window, queues>>

GiveUpData(m) ==
  /\ wait[m].st = "data" /\ ~fevent[m] /\ MayGiveUp(m)
  /\ GotData(m, fdata[m])
  /\ UNCHANGED <<clip, object, posted, listed, hmem, event, fdata, fevent, allowed, gate, window, queues>>

-----------------------------------------------------------------------------
(* What the context receives, in another thread: server_clip_file.         *)

\* wf_cliprdr_server_format_data_request: the files that are on the clipboard now.
ListOf(m) == IF clip[m] \in Nat THEN clip[m] ELSE None

\* server_format_list, wf_cliprdr_server_format_list.
OnFormats(m, from) ==
  /\ posted' = [posted EXCEPT ![m] = Append(@, from)]
  /\ UNCHANGED <<up, out, clip, object, listed, wait, hmem, event, fdata, fevent, hist>>

\* server_format_data_request.
OnAskList(m, from, msg) ==
  /\ listed' = [listed EXCEPT ![m] = IF ListOf(m) # None THEN ListOf(m) ELSE @]
  /\ Reply(m, from, [k |-> "list", req |-> msg.req, v |-> ListOf(m)])
  /\ hist' = [hist EXCEPT !.relisted[m] = @ \/ (listed[m] # None /\ ListOf(m) \notin {None, listed[m]})]
  /\ UNCHANGED <<clip, object, posted, wait, hmem, event, fdata, fevent>>

\* server_format_data_response.
OnList(m, msg) ==
  /\ hmem' = [hmem EXCEPT ![m] = IF msg.v = None THEN None ELSE [v |-> msg.v, req |-> msg.req]]
  /\ event' = [event EXCEPT ![m] = TRUE]
  /\ UNCHANGED <<up, out, clip, object, posted, listed, wait, fdata, fevent, hist>>

\* server_file_contents_request: of the files that were listed.
OnAskData(m, from, msg) ==
  /\ Reply(m, from, [k |-> "data", req |-> msg.req, v |-> listed[m]])
  /\ UNCHANGED <<context, hist>>

\* server_file_contents_response.
OnData(m, msg) ==
  /\ fdata' = [fdata EXCEPT ![m] = IF msg.v = None THEN None ELSE [v |-> msg.v, req |-> msg.req]]
  /\ fevent' = [fevent EXCEPT ![m] = TRUE]
  /\ UNCHANGED <<up, out, clip, object, posted, listed, wait, hmem, event, hist>>

Handle(m, from, msg) ==
  \/ msg.k = "formats" /\ OnFormats(m, from)
  \/ msg.k = "askList" /\ OnAskList(m, from, msg)
  \/ msg.k = "list" /\ OnList(m, msg)
  \/ msg.k = "askData" /\ OnAskData(m, from, msg)
  \/ msg.k = "data" /\ OnData(m, msg)

-----------------------------------------------------------------------------
(* The host: the connections and the connection manager's task.            *)

\* file_transfer_enabled.
Enabled(c) == gate[c].file /\ gate[c].option

\* on_message: the option of the controlling side, and what it sends, which msg_2_clip reads.
ConnReceive(c) ==
  /\ up[c] # <<>> /\ gate[c].there
  /\ up' = [up EXCEPT ![c] = Tail(@)]
  /\ LET msg == Head(up[c]) IN
     IF msg.k = "option"
       THEN /\ gate' = [gate EXCEPT ![c].option = msg.on]
            /\ cmq' = [cmq EXCEPT ![c] = Append(@, [k |-> "enable", on |-> gate[c].file /\ msg.on])]
       ELSE /\ cmq' = IF Enabled(c) THEN [cmq EXCEPT ![c] = Append(@, msg)] ELSE cmq
            /\ UNCHANGED gate
  /\ UNCHANGED <<context, allowed, window, out, down, count, hist>>

\* ... and what the context sends, on its way to the controlling side.
ConnSend(c) ==
  /\ out[c] # <<>> /\ gate[c].there
  /\ out' = [out EXCEPT ![c] = Tail(@)]
  /\ down' = IF Enabled(c) THEN [down EXCEPT ![c] = Append(@, Head(out[c]))] ELSE down
  /\ UNCHANGED <<context, allowed, gate, window, up, cmq, count, hist>>

\* start_clipboard_file, a message of a connection.
CmClip(c) ==
  /\ cmq[c] # <<>> /\ Head(cmq[c]).k # "enable"
  /\ cmq' = [cmq EXCEPT ![c] = Tail(@)]
  /\ Handle(Host, c, Head(cmq[c]))
  /\ UNCHANGED <<allowed, gate, window, down, count>>

\* empty_cliprdr: only an object that names another connection is left alone.
Emptied(c) == object[Host] \in {None, c}

\* start_clipboard_file, set_conn_enabled.
CmEnable(c) ==
  /\ cmq[c] # <<>> /\ Head(cmq[c]).k = "enable"
  /\ cmq' = [cmq EXCEPT ![c] = Tail(@)]
  /\ allowed' = [allowed EXCEPT ![c] = Head(cmq[c]).on]
  /\ IF ~Head(cmq[c]).on /\ Emptied(c)
       THEN /\ object' = [object EXCEPT ![Host] = None] /\ clip' = [clip EXCEPT ![Host] = None]
       ELSE UNCHANGED <<object, clip>>
  /\ UNCHANGED <<posted, listed, wait, hmem, event, fdata, fevent, gate, window, up, out, down, count, hist>>

\* The host's user switches the permission.
Switch(c) ==
  /\ gate[c].there /\ count.switches < MaxSwitches
  /\ count' = [count EXCEPT !.switches = @ + 1]
  /\ gate' = [gate EXCEPT ![c].file = ~@]
  /\ down' = [down EXCEPT ![c] = Append(@, [k |-> "permission", on |-> ~gate[c].file])]
  /\ cmq' = [cmq EXCEPT ![c] = Append(@, [k |-> "enable", on |-> ~gate[c].file /\ gate[c].option])]
  /\ hist' = [hist EXCEPT !.cut[c] = TRUE]
  /\ UNCHANGED <<context, allowed, window, up, out>>

\* The connection ends: with a Data::Close to the connection manager, or its process is gone.
Leave(c, close) ==
  /\ gate[c].there /\ count.switches < MaxSwitches
  /\ count' = [count EXCEPT !.switches = @ + 1]
  /\ gate' = [gate EXCEPT ![c].there = FALSE]
  /\ cmq' = IF close THEN [cmq EXCEPT ![c] = Append(@, [k |-> "enable", on |-> FALSE])] ELSE cmq
  /\ up' = [up EXCEPT ![c] = <<>>] /\ down' = [down EXCEPT ![c] = <<>>] /\ out' = [out EXCEPT ![c] = <<>>]
  /\ hist' = [hist EXCEPT !.cut[c] = TRUE]
  /\ UNCHANGED <<context, allowed, window>>

-----------------------------------------------------------------------------
(* A controlling side: its io loop, which stands still while a context is  *)
(* being destroyed.                                                        *)

\* check_clipboard_file_context: what is to become of the context.
Checked(c, server, option) ==
  [server |-> server, option |-> option,
   context |-> IF server /\ option THEN "on" ELSE IF window[c].context = "off" THEN "off" ELSE "closing"]

\* A new context: nothing of the old one is left but what came last, and the clipboard.
Created(c, w) ==
  IF window[c].context = "off" /\ w.context = "on"
    THEN /\ event' = [event EXCEPT ![c] = FALSE] /\ fevent' = [fevent EXCEPT ![c] = FALSE]
         /\ posted' = [posted EXCEPT ![c] = <<>>]
    ELSE UNCHANGED <<event, fevent, posted>>

\* handle_msg_from_peer: a permission.
OnPermission(c) ==
  /\ down[c] # <<>> /\ Head(down[c]).k = "permission" /\ window[c].context # "closing"
  /\ down' = [down EXCEPT ![c] = Tail(@)]
  /\ LET w == Checked(c, Head(down[c]).on, window[c].option)
     IN  window' = [window EXCEPT ![c] = w] /\ Created(c, w)
  /\ UNCHANGED <<clip, object, listed, wait, hmem, fdata, allowed, gate, up, cmq, out, count, hist>>

\* toggle_option and ToggleClipboardFile.
Toggle(c) ==
  /\ window[c].context # "closing" /\ count.switches < MaxSwitches
  /\ count' = [count EXCEPT !.switches = @ + 1]
  /\ LET w == Checked(c, window[c].server, ~window[c].option)
     IN  window' = [window EXCEPT ![c] = w] /\ Created(c, w)
  /\ up' = IF gate[c].there THEN [up EXCEPT ![c] = Append(@, [k |-> "option", on |-> ~window[c].option])] ELSE up
  /\ hist' = [hist EXCEPT !.cut[c] = TRUE]
  /\ UNCHANGED <<clip, object, listed, wait, hmem, fdata, allowed, gate, cmq, out, down>>

\* uninit_cliprdr: the clipboard is emptied; the window thread ends when it does not wait.
Destroyed(c) ==
  /\ window[c].context = "closing" /\ ~Waiting(c)
  /\ window' = [window EXCEPT ![c].context = "off"]
  /\ clip' = [clip EXCEPT ![c] = None] /\ object' = [object EXCEPT ![c] = None]
  /\ posted' = [posted EXCEPT ![c] = <<>>] /\ listed' = [listed EXCEPT ![c] = None]
  /\ wait' = [wait EXCEPT ![c] = Idle]
  /\ UNCHANGED <<hmem, event, fdata, fevent, allowed, gate, queues, count, hist>>

\* handle_msg_from_peer: anything else is for the context.
ClientClip(c) ==
  /\ down[c] # <<>> /\ Head(down[c]).k # "permission" /\ window[c].context # "closing"
  /\ down' = [down EXCEPT ![c] = Tail(@)]
  /\ IF window[c].context = "on" THEN Handle(c, Host, Head(down[c])) ELSE UNCHANGED <<context, up, out, hist>>
  /\ UNCHANGED <<allowed, gate, window, cmq, count>>

-----------------------------------------------------------------------------
Thread(m) ==
  Update(m) \/ SetClipboard(m) \/ ListReady(m) \/ Read(m) \/ DataReady(m) \/ GiveUpList(m) \/ GiveUpData(m)
Carry(c) ==
  ConnReceive(c) \/ ConnSend(c) \/ CmClip(c) \/ CmEnable(c) \/ OnPermission(c) \/ Destroyed(c) \/ ClientClip(c)

Next ==
  \/ \E m \in Machine : Copy(m) \/ Paste(m) \/ Thread(m)
  \/ \E c \in Conn : Carry(c) \/ Switch(c) \/ Toggle(c) \/ Leave(c, TRUE) \/ Leave(c, FALSE)

\* Messages are carried and the window threads run; no one's patience is counted on.
Fairness ==
  /\ \A c \in Conn : WF_vars(ConnReceive(c)) /\ WF_vars(ConnSend(c)) /\ WF_vars(CmClip(c))
       /\ WF_vars(CmEnable(c)) /\ WF_vars(OnPermission(c)) /\ WF_vars(Destroyed(c)) /\ WF_vars(ClientClip(c))
  /\ \A m \in Machine : WF_vars(Update(m)) /\ WF_vars(SetClipboard(m)) /\ WF_vars(ListReady(m)) /\ WF_vars(DataReady(m))

Spec == Init /\ [][Next]_vars /\ Fairness

-----------------------------------------------------------------------------
Files == 1..MaxCopies
Result == [v : Files, req : Nat]

\* Every variable has its type; a window without a context has no paste.
TypeOK ==
  /\ \A m \in Machine :
       /\ clip[m] \in Files \cup Machine \cup {None} /\ object[m] \in Machine \cup {None}
       /\ listed[m] \in Files \cup {None}
       /\ hmem[m] \in Result \cup {None} /\ fdata[m] \in Result \cup {None}
       /\ wait[m].st \in {"idle", "list", "listed", "data"}
       /\ \A i \in 1..Len(posted[m]) : posted[m][i] \in Machine \cup {"update"}
  /\ \A c \in Conn : window[c].context = "off" => wait[c] = Idle /\ posted[c] = <<>>
  /\ allowed \in [Conn -> BOOLEAN]

\* What a paste takes for the list of the files, and for their contents, is the answer to
\* its own request, unless the machine has given up a wait before.
AnswersMatch == \A m \in Machine : ~hist.gaveup[m] =>
  /\ wait[m].st = "listed" => wait[m].list.req = wait[m].req
  /\ hist.done[m] # None => hist.done[m].data.req = hist.done[m].req

\* The contents a paste reads are those of the files it listed, unless the machine they
\* are on has listed others since, for whomever.
ContentsAreListed == \A m \in Machine :
  hist.done[m] # None /\ ~hist.gaveup[m] /\ ~hist.relisted[hist.done[m].from]
    => hist.done[m].data.v = hist.done[m].list.v

\* A request of the host's and its answer are nowhere but between the host and the
\* connection it asked, and none is there twice.
Asked(q) == Cardinality({i \in DOMAIN q : q[i].k \in {"askList", "askData", "list", "data"}})
AnswersGoToAskers == \A c \in Conn :
  ~hist.gaveup[Host] /\ ~hist.gaveup[c] =>
    Asked(up[c]) + Asked(cmq[c]) + Asked(out[c]) + Asked(down[c]) <= (IF Waiting(c) THEN 1 ELSE 0) + (IF Waiting(Host) /\ wait[Host].from = c THEN 1 ELSE 0)

\* A paste does not depend on patience: the list, or the contents, or a refusal comes, unless
\* the connection was switched off at one of its ends, or ended.
PasteEnds == \A m \in Machine :
  Waiting(m) ~> ~Waiting(m) \/ \E c \in Conn : hist.cut[c] /\ c \in {m, wait[m].from}
=============================================================================
