---------------------------- MODULE PortForward ----------------------------
(***************************************************************************)
(* TCP tunnels: the window that lists the forwards (ui/remote.rs), one     *)
(* listener for each (port_forward.rs), and for each client of a listener  *)
(* a connection to the controlled side that logs in and then turns into a  *)
(* raw stream in both ends (connection.rs).                                *)
(*                                                                         *)
(* One task runs all of the controlling side.  Of the bytes of a client    *)
(* there remain their numbers; the bytes back from the service are left    *)
(* out, as are RDP's own window and the count of failures (LoginFailures). *)
(***************************************************************************)
EXTENDS Naturals, Sequences, SequencesExt, FiniteSets

CONSTANTS
  Port, Target,  \* what is listened on; host and port at the other end
  Listener, Conn,\* bound: listeners started, clients accepted
  None,
  MaxClicks,     \* bound: adds, removals and passwords typed
  MaxData,       \* bound: pieces that a client writes
  Stored         \* the forwards kept in the peer's configuration at the start

PortForwardAssumption ==
  Stored \in [Port -> Target \cup {None}] /\ MaxClicks \in Nat /\ MaxData \in Nat

VARIABLES
  listed,   \* config.port_forwards: port |-> target
  inbox,    \* io_loop's queue
  queues,   \* io_loop's queues: port |-> listener
  lst,      \* the listeners: state, port, target, queue; sender: whether anyone holds its other end
  lc,       \* the handler's LoginConfigHandler: port_forward, hash (whose challenge), password
  conn,     \* the clients and their streams
  closed,   \* io_loop has ended, and the runtime with all of its tasks
  asking,   \* a box that asks for the password is up
  clicks,
  lost      \* history: "close" was read by a login, "word" by none; "mixed": a client came while another's
            \* login or password was under way

vars == <<listed, inbox, queues, lst, lc, conn, closed, asking, clicks, lost>>

Word == {"none", "right", "wrong"}
NewConn == [l |-> None, st |-> "none", in |-> <<>>, wrote |-> 0, buf |-> <<>>, toB |-> <<>>, toA |-> <<>>,
            b |-> "none", at |-> None, delay |-> FALSE, got |-> <<>>]
Free == [st |-> "free", port |-> None, target |-> None, box |-> <<>>, sender |-> FALSE]

Init ==
  /\ listed = Stored
  /\ LET kept == SetToSeq({p \in Port : Stored[p] # None})
     IN inbox = [i \in 1 .. Len(kept) |-> [m |-> "add", p |-> kept[i], t |-> Stored[kept[i]]]]
  /\ queues = [p \in Port |-> None]
  /\ lst = [l \in Listener |-> Free]
  /\ lc = [target |-> None, hash |-> None, word |-> "none"]
  /\ conn = [k \in Conn |-> NewConn]
  /\ closed = FALSE /\ asking = FALSE /\ clicks = 0 /\ lost = {}

-----------------------------------------------------------------------------
(* The window and io_loop. *)

Click(m) == clicks < MaxClicks /\ clicks' = clicks + 1 /\ inbox' = Append(inbox, m)

Add(p, t) ==
  /\ listed[p] = None
  /\ Click([m |-> "add", p |-> p, t |-> t])
  /\ listed' = [listed EXCEPT ![p] = t]
  /\ UNCHANGED <<queues, lst, lc, conn, closed, asking, lost>>

TakeOut(p) ==
  /\ listed[p] # None
  /\ Click([m |-> "remove", p |-> p])
  /\ listed' = [listed EXCEPT ![p] = None]
  /\ UNCHANGED <<queues, lst, lc, conn, closed, asking, lost>>

TypeWord(w) ==
  /\ asking
  /\ Click([m |-> "login", w |-> w])
  /\ asking' = FALSE
  /\ UNCHANGED <<listed, queues, lst, lc, conn, closed, lost>>

CloseWindow ==
  /\ ~closed
  /\ inbox' = Append(inbox, [m |-> "close"])
  /\ inbox = <<>>
  /\ UNCHANGED <<listed, queues, lst, lc, conn, closed, asking, clicks, lost>>

\* A sender that is dropped: recv of the listener answers None from then on.
Drop(q, l) == [q EXCEPT ![l].sender = FALSE]

Unlisted(q, l) == IF l = None THEN q ELSE Drop([q EXCEPT ![l].box = Append(@, [m |-> "close"])], l)

\* One message of io_loop. A listener is started as a task of its own.
IoLoop ==
  /\ ~closed /\ inbox # <<>>
  /\ inbox' = Tail(inbox)
  /\ LET m == Head(inbox) IN
     \/ /\ m.m = "add"
        /\ \E l \in Listener :
             /\ lst[l].st = "free"
             /\ queues' = [queues EXCEPT ![m.p] = l]
             /\ lst' = [(IF queues[m.p] = None THEN lst ELSE Drop(lst, queues[m.p]))
                          EXCEPT ![l] = [st |-> "spawned", port |-> m.p, target |-> m.t, box |-> <<>>, sender |-> TRUE]]
        /\ UNCHANGED <<conn, closed>>
     \/ /\ m.m = "remove"
        /\ queues' = [queues EXCEPT ![m.p] = None]
        /\ lst' = Unlisted(lst, queues[m.p])
        /\ UNCHANGED <<conn, closed>>
     \/ /\ m.m = "login"
        /\ lst' = [l \in Listener |-> IF \E p \in Port : queues[p] = l THEN [lst[l] EXCEPT !.box = Append(@, m)] ELSE lst[l]]
        /\ UNCHANGED <<queues, conn, closed>>
     \/ /\ m.m = "close"
        /\ closed' = TRUE
        /\ lst' = [l \in Listener |-> Free]
        /\ conn' = [k \in Conn |-> IF conn[k].st = "none" THEN conn[k] ELSE [conn[k] EXCEPT !.st = "done", !.buf = <<>>]]
        /\ UNCHANGED queues
  /\ UNCHANGED <<listed, lc, asking, clicks, lost>>

-----------------------------------------------------------------------------
(* A listener. *)

\* start_one_port_forward: what is forwarded to is a field of the handler that all of them share.
Start(l) ==
  /\ lst[l].st = "spawned"
  /\ lc' = [lc EXCEPT !.target = lst[l].target]
  /\ \E st \in {"idle", "ended"} : lst' = [lst EXCEPT ![l].st = st]
  /\ UNCHANGED <<listed, inbox, queues, conn, closed, asking, clicks, lost>>

Typed(box) == \E i \in 1 .. Len(box) : box[i].m = "login"

Accept(l, k) ==
  /\ lst[l].st = "idle" /\ conn[k].st = "none"
  /\ lst' = [lst EXCEPT ![l].st = k]
  /\ conn' = [conn EXCEPT ![k].st = "dial", ![k].l = l]
  /\ lost' = IF asking \/ Typed(inbox) \/ \E o \in Listener : lst[o].st \in Conn \/ Typed(lst[o].box)
             THEN lost \cup {"mixed"} ELSE lost
  /\ UNCHANGED <<listed, inbox, queues, lc, closed, asking, clicks>>

\* The select of listen, when it is not logging in: all but Close is dropped.
ListenBox(l) ==
  /\ lst[l].st = "idle" /\ lst[l].box # <<>>
  /\ LET m == Head(lst[l].box) IN
     /\ lst' = [lst EXCEPT ![l].box = Tail(@), ![l].st = IF m.m = "close" THEN "ended" ELSE "idle"]
     /\ lost' = IF m.m = "login" /\ ~(\E o \in Listener : lst[o].st \in Conn) THEN lost \cup {"word"} ELSE lost
  /\ UNCHANGED <<listed, inbox, queues, lc, conn, closed, asking, clicks>>

-----------------------------------------------------------------------------
(* connect_and_login, in which the listener does nothing else. *)

\* typed: what the user meant it to be.
Login(w, typed) == [k |-> "login", w |-> w, typed |-> typed, t |-> lc.target]

\* It leaves with an error, or with none: the stream and the client are dropped.
LeaveLogin(k) ==
  /\ lst' = [lst EXCEPT ![conn[k].l].st = "idle"]
  /\ conn' = [conn EXCEPT ![k].st = "done", ![k].buf = <<>>]

\* Client::start.
Dial(k) ==
  /\ conn[k].st = "dial"
  /\ \/ /\ conn' = [conn EXCEPT ![k].st = "login", ![k].b = "await", ![k].toA = <<"hash">>]
        /\ UNCHANGED lst
     \/ LeaveLogin(k)
  /\ UNCHANGED <<listed, inbox, queues, lc, closed, asking, clicks, lost>>

\* handle_hash: with the password it has, or none and a box that asks for one. The challenge is kept
\* where that of another login may be.
OnHash(k) ==
  /\ conn' = [conn EXCEPT ![k].toA = Tail(@), ![k].toB = Append(@, Login(lc.word, lc.word))]
  /\ lc' = [lc EXCEPT !.hash = k]
  /\ asking' = (asking \/ lc.word = "none")
  /\ UNCHANGED <<lst, lost>>

\* It is let in: set_raw, and what the client wrote meanwhile.
OnPeer(k) ==
  /\ conn' = [conn EXCEPT ![k].toA = Tail(@), ![k].st = "raw", ![k].toB = @ \o conn[k].buf, ![k].buf = <<>>]
  /\ lst' = [lst EXCEPT ![conn[k].l].st = "idle"]
  /\ UNCHANGED <<lc, asking, lost>>

FromB(k) ==
  /\ conn[k].st = "login" /\ conn[k].toA # <<>>
  /\ LET f == Head(conn[k].toA) IN
     \/ f = "hash" /\ OnHash(k)
     \/ f = "peer" /\ OnPeer(k)
     \/ /\ f = "delay"
        /\ conn' = [conn EXCEPT ![k].toA = Tail(@), ![k].toB = Append(@, [k |-> "delay"])]
        /\ UNCHANGED <<lst, lc, asking, lost>>
     \/ f = "error" /\ LeaveLogin(k) /\ UNCHANGED <<lc, asking, lost>>
     \/ f = "wrong" /\ LeaveLogin(k) /\ lc' = [lc EXCEPT !.word = "none"] /\ asking' = TRUE /\ UNCHANGED lost
  /\ UNCHANGED <<listed, inbox, queues, closed, clicks>>

\* Its queue: handle_login_from_ui answers the challenge that was kept last.
LoginBox(k) ==
  /\ conn[k].st = "login" /\ lst[conn[k].l].box # <<>>
  /\ LET l == conn[k].l
         m == Head(lst[l].box) IN
     /\ lst' = [lst EXCEPT ![l].box = Tail(@)]
     /\ IF m.m = "login"
        THEN /\ lc' = [lc EXCEPT !.word = m.w]
             /\ conn' = [conn EXCEPT ![k].toB = Append(@, Login(IF lc.hash = k THEN m.w ELSE "wrong", m.w))]
             /\ UNCHANGED lost
        ELSE lost' = lost \cup {"close"} /\ UNCHANGED <<lc, conn>>
  /\ UNCHANGED <<listed, inbox, queues, closed, asking, clicks>>

\* recv that answers None at once, again and again: the time limit is set anew each time.
Spins(l) == ~lst[l].sender /\ lst[l].box = <<>>

\* 18 s in which nothing came: nothing of the peer, the queue, or the client.
LoginTimeout(k) ==
  /\ conn[k].st = "login" /\ conn[k].toA = <<>> /\ ~Spins(conn[k].l)
  /\ LeaveLogin(k)
  /\ UNCHANGED <<listed, inbox, queues, lc, closed, asking, clicks, lost>>

\* The client leaves while it is logged in, or the stream ends.
LoginCut(k) ==
  /\ conn[k].st = "login"
  /\ conn[k].in = <<>> \/ (conn[k].b = "gone" /\ conn[k].toA = <<>>)
  /\ LeaveLogin(k)
  /\ UNCHANGED <<listed, inbox, queues, lc, closed, asking, clicks, lost>>

ClientWrites(k) ==
  /\ conn[k].st \notin {"none", "done"} /\ conn[k].wrote < MaxData
  /\ conn' = [conn EXCEPT ![k].wrote = @ + 1, ![k].in = Append(@, [k |-> "data", n |-> conn[k].wrote + 1])]
  /\ UNCHANGED <<listed, inbox, queues, lst, lc, closed, asking, clicks, lost>>

\* Read by the login, which keeps it, or by run_forward, which passes it on.
FromClient(k) ==
  /\ conn[k].st \in {"login", "raw"} /\ conn[k].in # <<>>
  /\ conn' = IF conn[k].st = "raw"
             THEN [conn EXCEPT ![k].in = Tail(@), ![k].toB = Append(@, Head(conn[k].in))]
             ELSE [conn EXCEPT ![k].in = Tail(@), ![k].buf = Append(@, Head(conn[k].in))]
  /\ UNCHANGED <<listed, inbox, queues, lst, lc, closed, asking, clicks, lost>>

\* run_forward ends when either end of it does.
ForwardEnds(k) ==
  /\ conn[k].st = "raw"
  /\ conn[k].b = "gone" \/ conn[k].in = <<>>
  /\ conn' = [conn EXCEPT ![k].st = "done"]
  /\ UNCHANGED <<listed, inbox, queues, lst, lc, closed, asking, clicks, lost>>

-----------------------------------------------------------------------------
(* The controlled side. *)

\* A login request: the service is reached first, then the password is looked at.
BLogin(k) ==
  /\ conn[k].b \in {"await", "asked"} /\ conn[k].toB # <<>> /\ Head(conn[k].toB).k = "login"
  /\ LET f == Head(conn[k].toB)
         step(b, a) == conn' = [conn EXCEPT ![k].toB = Tail(@), ![k].b = b, ![k].at = f.t,
                                            ![k].toA = IF a = "" THEN @ ELSE Append(@, a)]
     IN \/ step("gone", "error")   \* enable-tunnel, or the service is out of reach
        \/ f.w = "none" /\ step("asked", "")
        \/ f.w = "wrong" /\ step("await", "wrong")
        \/ f.w = "right" /\ step("raw", "peer")
  /\ UNCHANGED <<listed, inbox, queues, lst, lc, closed, asking, clicks, lost>>

\* The user of the controlled side accepts.
BAccept(k) ==
  /\ conn[k].b = "asked"
  /\ conn' = [conn EXCEPT ![k].b = "raw", ![k].toA = Append(@, "peer")]
  /\ UNCHANGED <<listed, inbox, queues, lst, lc, closed, asking, clicks, lost>>

\* test_delay: asked whether or not the peer is let in, one at a time.
BDelay(k) ==
  /\ conn[k].b \in {"await", "asked"}
  /\ \/ /\ ~conn[k].delay /\ "delay" \notin {conn[k].toA[i] : i \in 1 .. Len(conn[k].toA)}
        /\ conn' = [conn EXCEPT ![k].delay = TRUE, ![k].toA = Append(@, "delay")]
     \/ /\ conn[k].toB # <<>> /\ Head(conn[k].toB).k \in {"delay", "data"}
        /\ conn' = [conn EXCEPT ![k].toB = Tail(@)]
  /\ UNCHANGED <<listed, inbox, queues, lst, lc, closed, asking, clicks, lost>>

\* try_port_forward_loop: whatever comes is the service's.
BRaw(k) ==
  /\ conn[k].b = "raw" /\ conn[k].toB # <<>>
  /\ conn' = [conn EXCEPT ![k].toB = Tail(@), ![k].got = Append(@, Head(conn[k].toB))]
  /\ UNCHANGED <<listed, inbox, queues, lst, lc, closed, asking, clicks, lost>>

\* Closed by its manager, by the service, by the other end, or after an hour.
BEnds(k) ==
  /\ conn[k].b \in {"await", "asked", "raw"}
  /\ conn' = [conn EXCEPT ![k].b = "gone"]
  /\ UNCHANGED <<listed, inbox, queues, lst, lc, closed, asking, clicks, lost>>

Controlling ==
  \/ \E p \in Port, t \in Target : Add(p, t)
  \/ \E p \in Port : TakeOut(p)
  \/ \E w \in {"right", "wrong"} : TypeWord(w)
  \/ CloseWindow \/ IoLoop
  \/ \E l \in Listener : Start(l) \/ ListenBox(l) \/ \E k \in Conn : Accept(l, k)

Login_(k) == Dial(k) \/ FromB(k) \/ LoginBox(k) \/ LoginTimeout(k) \/ LoginCut(k) \/ FromClient(k) \/ ForwardEnds(k)
Controlled(k) == BLogin(k) \/ BAccept(k) \/ BDelay(k) \/ BRaw(k) \/ BEnds(k)

Next == Controlling \/ \E k \in Conn : ClientWrites(k) \/ Login_(k) \/ Controlled(k)

\* The runtime runs every task that can run, and its timer: not the users, not the peer.
Fairness ==
  /\ WF_vars(IoLoop)
  /\ \A l \in Listener : WF_vars(Start(l)) /\ WF_vars(ListenBox(l))
  /\ \A k \in Conn : WF_vars(Dial(k)) /\ WF_vars(FromB(k)) /\ WF_vars(LoginBox(k)) /\ WF_vars(LoginTimeout(k))

Spec == Init /\ [][Next]_vars /\ Fairness

-----------------------------------------------------------------------------
(* Properties. *)

Data(s) == SelectSeq(s, LAMBDA f : f.k = "data")

TypeOK ==
  /\ listed \in [Port -> Target \cup {None}]
  /\ queues \in [Port -> Listener \cup {None}]
  /\ \A l \in Listener : lst[l].st \in {"free", "spawned", "idle", "ended"} \cup Conn /\ lst[l].sender \in BOOLEAN
  /\ lc.target \in Target \cup {None} /\ lc.hash \in Conn \cup {None} /\ lc.word \in Word
  /\ \A k \in Conn : /\ conn[k].st \in {"none", "dial", "login", "raw", "done"}
                     /\ conn[k].b \in {"none", "await", "asked", "raw", "gone"}
                     /\ Len(conn[k].got) <= MaxData + MaxClicks + 2
  /\ \A l \in Listener : lst[l].st \in Conn => conn[lst[l].st].l = l /\ conn[lst[l].st].st \in {"dial", "login"}
  /\ closed \in BOOLEAN /\ asking \in BOOLEAN /\ lost \subseteq {"close", "word", "mixed"}

\* Of what its client wrote, a service gets the beginning, in order and whole. What else it gets are
\* answers of the login that were on their way when the other end let it in, so it gets them first.
BytesInOrder ==
  \A k \in Conn :
    LET got == conn[k].got
    IN /\ \A i \in 1 .. Len(Data(got)) : Data(got)[i].n = i
       /\ \A i, j \in 1 .. Len(got) : got[i].k = "data" /\ i < j => got[j].k = "data"
       /\ conn[k].st = "raw" => Len(Data(got)) + Len(Data(conn[k].toB)) + Len(conn[k].in) = conn[k].wrote

\* A listener that is taken out of the list is told, and forgets it only when it is in a login then.
RemovedIsTold ==
  \A l \in Listener :
    lst[l].st \notin {"free", "ended"} /\ ~(\E p \in Port : queues[p] = l)
      => "close" \in lost \/ \E i \in 1 .. Len(lst[l].box) : lst[l].box[i].m = "close"

\* A challenge that is answered wrong was answered with a wrong password, or another client's login or
\* password was under way when this one came: the challenge is kept in one place, and so is the word.
WrongIsTyped ==
  \A k \in Conn : \A i \in 1 .. Len(conn[k].toB) :
    LET f == conn[k].toB[i]
    IN f.k = "login" /\ f.w = "wrong" /\ f.typed = "right" => "mixed" \in lost

\* Whoever logs in to a peer that has fallen silent is given up, unless his forward was removed meanwhile:
\* its queue then answers at once, for ever, and the time limit never runs.
SilentIsGivenUp ==
  \A k \in Conn : conn[k].st \in {"dial", "login"}
    ~> (conn[k].st \in {"none", "raw", "done"} \/ Spins(conn[k].l))

=============================================================================
