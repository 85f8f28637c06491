---------------------------- MODULE SharedConfig ----------------------------
(***************************************************************************)
(* The settings of a machine (config.rs, ipc.rs, the key synchronisation   *)
(* of server.rs): every process of the program keeps a copy of Config,     *)
(* read from its file when it is first used and never again, and a setter  *)
(* that changes the copy writes the WHOLE copy back.  The server is the    *)
(* process that listens on the ipc endpoint; the others change a setting   *)
(* in their copy and send it to the server, and ask the server before they *)
(* trust their copy.                                                       *)
(*                                                                         *)
(* Where the file is follows from the account a process runs under: the    *)
(* service and the server it starts are of one account, the window of the  *)
(* user is of another (Config::path).  Home says which processes share.    *)
(*                                                                         *)
(* The fields stand for their kinds: password for those that are made up   *)
(* when empty (password, salt), plain for those with a default (cstdir,    *)
(* pwdupd, idle, flagex, uid).  The options are SharedOptions'.            *)
(***************************************************************************)
EXTENDS Naturals, Sequences

CONSTANTS
  Client,    \* the processes beside the server
  Server,    \* the process that listens
  Home,      \* the directory of a process's file
  Unread,    \* a copy that was not read yet
  Texts,     \* the values a user types, or the generator draws
  MaxKeys,   \* bound: key pairs generated
  MaxIds,    \* bound: ids drawn by update_id
  MaxExits,  \* bound: times the server ends
  MaxCalls,  \* bound: settings changed through ipc
  AutoId     \* the id that follows from the network card: the same in every process

Process == Client \cup {Server}
Homes == {Home[p] : p \in Process}

Config == [id : 0 .. AutoId + MaxIds, password : Texts \cup {0}, plain : Texts \cup {0},
           key : 0 .. MaxKeys, confirmed : BOOLEAN]

SharedConfigAssumption ==
  /\ Server \notin Client
  /\ Texts \subseteq Nat \ {0}
  /\ {MaxKeys, MaxIds, MaxExits, MaxCalls} \subseteq Nat
  /\ AutoId = 1
  /\ Unread \notin Config

VARIABLES
  file,   \* Config on disk
  mem,    \* CONFIG of a process
  up,     \* the server listens
  calls,  \* the settings a client sent and the server did not handle yet
  ask,    \* the question a client waits on
  sync,   \* the key synchronisation of start_server(false)
  made,   \* bound: key pairs generated
  drawn,  \* bound: ids drawn
  exits,  \* bound: times the server ended
  sent,   \* bound: settings sent
  kept,   \* history: the password last stored in the server's file as a change of it
  stale   \* history: a process stored a copy that missed what another had stored

vars == <<file, mem, up, calls, ask, sync, made, drawn, exits, sent, kept, stale>>
counts == <<made, drawn, exits, sent>>

Default == [id |-> 0, password |-> 0, plain |-> 0, key |-> 0, confirmed |-> FALSE]
Text == {"password", "plain"}
Unasked == [is |-> "none"]
Off == [is |-> "off"]

Init ==
  /\ file = [h \in Homes |-> Default]
  /\ mem = [p \in Process |-> Unread]
  /\ up = TRUE
  /\ calls = [c \in Client |-> <<>>]
  /\ ask = [c \in Client |-> Unasked]
  /\ sync = [c \in Client |-> Off]
  /\ made = 0 /\ drawn = 0 /\ exits = 0 /\ sent = 0
  /\ kept = 0
  /\ stale = FALSE

\* CONFIG is filled by its first use.
Load(p) == IF mem[p] = Unread THEN file[Home[p]] ELSE mem[p]

(***************************************************************************)
(* A setter: nothing when the copy says so already, else the copy changes  *)
(* and all of it is stored.                                                *)
(***************************************************************************)
Put_Unstored(p, cfg) ==
  /\ mem' = [mem EXCEPT ![p] = cfg]
  /\ kept' = IF Home[p] = Home[Server] /\ cfg.password # Load(p).password THEN cfg.password ELSE kept
  /\ UNCHANGED <<file, stale>>

Put(p, cfg) ==
  /\ mem' = [mem EXCEPT ![p] = cfg]
  /\ file' = [file EXCEPT ![Home[p]] = IF cfg = Load(p) THEN @ ELSE cfg]
  /\ kept' = IF Home[p] = Home[Server] /\ cfg.password # Load(p).password THEN cfg.password ELSE kept
  /\ stale' = (stale \/ (cfg # Load(p) /\ Load(p) # file[Home[p]]))

\* get_id: the id of the network card when there is none.
WithId(cfg) == IF cfg.id = 0 THEN [cfg EXCEPT !.id = AutoId] ELSE cfg

\* get_password and get_salt make a value up, the others have a default.
WithText(cfg, f, v) == IF f = "password" /\ cfg.password = 0 THEN [cfg EXCEPT !.password = v] ELSE cfg

\* set_key_confirmed(false) and set_id, when the id is another.
WithNewId(cfg, i) == [cfg EXCEPT !.id = i, !.confirmed = FALSE]

-----------------------------------------------------------------------------
(* The server's own threads. *)

\* get_key_pair: the lock is held, so that one process generates once.
MakeKey ==
  /\ up /\ made < MaxKeys
  /\ Load(Server).key = 0
  /\ made' = made + 1
  /\ Put(Server, [Load(Server) EXCEPT !.key = made + 1])
  /\ UNCHANGED <<up, calls, ask, sync, drawn, exits, sent>>

\* register_pk reads the id and the key pair; a rendezvous server has confirmed them.
ConfirmKey ==
  /\ up
  /\ Load(Server).key # 0
  /\ Put(Server, [WithId(Load(Server)) EXCEPT !.confirmed = TRUE])
  /\ UNCHANGED <<up, calls, ask, sync, counts>>

\* handle_uuid_mismatch: update_id draws another id.
UpdateId ==
  /\ up /\ drawn < MaxIds
  /\ drawn' = drawn + 1
  /\ Put(Server, WithNewId(Load(Server), AutoId + drawn + 1))
  /\ UNCHANGED <<up, calls, ask, sync, made, exits, sent>>

\* Its process ends (a Close, a changed session, a crash) and a new one starts.
Exit ==
  /\ up /\ exits < MaxExits
  /\ up' = FALSE
  /\ exits' = exits + 1
  /\ mem' = [mem EXCEPT ![Server] = Unread]
  /\ calls' = [c \in Client |-> <<>>]
  /\ sync' = [c \in Client |-> IF sync[c].is = "off" THEN Off ELSE [sync[c] EXCEPT !.linked = FALSE]]
  /\ UNCHANGED <<file, ask, made, drawn, sent, kept, stale>>

Start ==
  /\ ~up
  /\ up' = TRUE
  /\ UNCHANGED <<file, mem, calls, ask, sync, counts, kept, stale>>

-----------------------------------------------------------------------------
(* ipc.rs on the side of the server: one connection for a call. *)

HandleSet(c) ==
  /\ up /\ calls[c] # <<>>
  /\ LET m == Head(calls[c]) IN Put(Server, [Load(Server) EXCEPT ![m.field] = m.value])
  /\ calls' = [calls EXCEPT ![c] = Tail(@)]
  /\ UNCHANGED <<up, ask, sync, counts>>

HandleGet(c, v) ==
  /\ up /\ ask[c].is = "asked"
  /\ LET f == ask[c].field
         cfg == IF f = "id" THEN WithId(Load(Server)) ELSE WithText(Load(Server), f, v) IN
       /\ Put(Server, cfg)
       /\ ask' = [ask EXCEPT ![c] = [is |-> "told", field |-> f, value |-> cfg[f]]]
  /\ UNCHANGED <<up, calls, sync, counts>>

-----------------------------------------------------------------------------
(* ipc.rs on the side of a client. *)

\* set_password, set_cstdir ...: the copy first, then the server, which does not answer.
SetText(c, f, v) ==
  /\ ask[c] = Unasked /\ sent < MaxCalls
  /\ sent' = sent + 1
  /\ Put(c, [Load(c) EXCEPT ![f] = v])
  /\ calls' = IF up THEN [calls EXCEPT ![c] = Append(@, [field |-> f, value |-> v])] ELSE calls
  /\ UNCHANGED <<up, ask, sync, made, drawn, exits>>

\* get_id, get_password, get_cstdir ...: the server is asked ...
Ask(c, f) ==
  /\ up /\ ask[c] = Unasked
  /\ ask' = [ask EXCEPT ![c] = [is |-> "asked", field |-> f]]
  /\ UNCHANGED <<file, mem, up, calls, sync, counts, kept, stale>>

\* ... and what it says is kept ...
Told(c) ==
  /\ ask[c].is = "told"
  /\ LET v == ask[c].value
         own == WithId(Load(c)) IN
       Put(c, IF ask[c].field # "id" THEN [Load(c) EXCEPT ![ask[c].field] = v]
              ELSE IF v = own.id THEN own ELSE WithNewId(own, v))
  /\ ask' = [ask EXCEPT ![c] = Unasked]
  /\ UNCHANGED <<up, calls, sync, counts>>

\* ... or the copy answers, when the server does not listen or is late.
Untold(c, f, v) ==
  /\ IF ask[c] = Unasked THEN ~up ELSE ask[c].is = "asked" /\ ask[c].field = f
  /\ Put(c, IF f = "id" THEN WithId(Load(c)) ELSE WithText(Load(c), f, v))
  /\ ask' = [ask EXCEPT ![c] = Unasked]
  /\ UNCHANGED <<up, calls, sync, counts>>

\* A client is closed and opened again: its copy is read anew.
Reopen(c) ==
  /\ ask[c] = Unasked /\ sync[c].is \in {"off", "done"} /\ mem[c] # Unread
  /\ mem' = [mem EXCEPT ![c] = Unread]
  /\ sync' = [sync EXCEPT ![c] = Off]
  /\ UNCHANGED <<file, up, calls, ask, counts, kept, stale>>

-----------------------------------------------------------------------------
(***************************************************************************)
(* start_server(false): while the copy's key is not confirmed the server   *)
(* is asked for its pair, each second; a confirmed one is looked at three  *)
(* more times.  The connection is made once.                               *)
(***************************************************************************)
SyncStart(c) ==
  /\ up /\ sync[c] = Off
  /\ sync' = [sync EXCEPT ![c] = [is |-> "look", n |-> 0, linked |-> TRUE]]
  /\ UNCHANGED <<file, mem, up, calls, ask, counts, kept, stale>>

SyncLook(c) ==
  /\ sync[c].is = "look"
  /\ mem' = [mem EXCEPT ![c] = Load(c)]
  /\ sync' = [sync EXCEPT ![c] =
       IF ~Load(c).confirmed THEN [@ EXCEPT !.is = "wait"]
       ELSE IF @.n = 3 THEN [@ EXCEPT !.is = "done"] ELSE [@ EXCEPT !.n = sync[c].n + 1]]
  /\ UNCHANGED <<file, up, calls, ask, counts, kept, stale>>

\* ConfirmedKey(Unasked): the pair when it is confirmed.
SyncTold(c) ==
  /\ sync[c].is = "wait" /\ sync[c].linked
  /\ Load(Server).confirmed
  /\ Put(c, [Load(c) EXCEPT !.key = Load(Server).key])
  /\ sync' = [sync EXCEPT ![c].is = "pair"]
  /\ UNCHANGED <<up, calls, ask, counts>>

SyncConfirmed(c) ==
  /\ sync[c].is = "pair"
  /\ Put(c, [Load(c) EXCEPT !.confirmed = TRUE])
  /\ sync' = [sync EXCEPT ![c].is = "done"]
  /\ UNCHANGED <<up, calls, ask, counts>>

\* Not confirmed yet, an answer too late, a connection that is gone: it looks again.
SyncUntold(c) ==
  /\ sync[c].is = "wait"
  /\ sync' = [sync EXCEPT ![c].is = "look"]
  /\ UNCHANGED <<file, mem, up, calls, ask, counts, kept, stale>>

-----------------------------------------------------------------------------
ServerStep == MakeKey \/ ConfirmKey \/ UpdateId \/ Exit \/ Start

IpcStep(c) ==
  \/ HandleSet(c)
  \/ \E v \in Texts : HandleGet(c, v)
  \/ \E f \in Text, v \in Texts : SetText(c, f, v)
  \/ \E f \in Text \cup {"id"} : Ask(c, f)
  \/ Told(c)
  \/ \E f \in Text \cup {"id"}, v \in Texts : Untold(c, f, v)
  \/ Reopen(c)

SyncStep(c) ==
  SyncStart(c) \/ SyncLook(c) \/ SyncTold(c) \/ SyncConfirmed(c) \/ SyncUntold(c)

Next == ServerStep \/ \E c \in Client : IpcStep(c) \/ SyncStep(c)

(***************************************************************************)
(* The server's threads run and its rendezvous server answers at last; the *)
(* synchronisation runs, and is answered in time at last.                  *)
(***************************************************************************)
Fairness ==
  /\ WF_vars(MakeKey) /\ WF_vars(ConfirmKey)
  /\ \A c \in Client :
       /\ WF_vars(SyncStart(c) \/ SyncLook(c) \/ SyncConfirmed(c) \/ SyncUntold(c))
       /\ SF_vars(SyncTold(c))

Spec == Init /\ [][Next]_vars /\ Fairness

-----------------------------------------------------------------------------
TypeOK ==
  /\ file \in [Homes -> Config]
  /\ \A p \in Process : mem[p] \in Config \cup {Unread}
  /\ up \in BOOLEAN /\ stale \in BOOLEAN
  /\ \A c \in Client :
       /\ \A i \in DOMAIN calls[c] : calls[c][i] \in [field : Text, value : Texts]
       /\ ask[c].is \in {"none", "asked", "told"}
       /\ sync[c].is \in {"off", "look", "wait", "pair", "done"}
  /\ made \in 0 .. MaxKeys /\ drawn \in 0 .. MaxIds /\ exits \in 0 .. MaxExits /\ sent \in 0 .. MaxCalls
  /\ kept \in Texts \cup {0}

\* A password that was replaced does not come back: the file the next server reads has
\* the one stored last, whoever else keeps a copy.
PasswordIsKept == file[Home[Server]].password = kept

\* The same where the service and the server share a file: the password is lost only
\* after a process stored a copy that missed what was written since it was read.
KeptUnlessStale == PasswordIsKept \/ stale

\* The key pair a machine registers with is made once and stays ("lock here to make sure
\* no gen_keypair more than once"): hbbs, and the machines that checked it, know it.
KeyStays == file[Home[Server]].key # 0 => file'[Home[Server]].key = file[Home[Server]].key

\* A window that takes its key for confirmed has the pair the server registered, however
\* its questions for the id and the synchronisation interleave.
ConfirmedIsServers ==
  \A c \in Client : mem[c] # Unread /\ mem[c].confirmed => mem[c].key = file[Home[Server]].key /\ mem[c].key # 0

\* The synchronisation ends, unless the server it was connected to has: it never
\* connects again.
SyncEnds == \A c \in Client : sync[c].is = "look" ~> sync[c].is = "done" \/ exits > 0
=============================================================================
