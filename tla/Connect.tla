------------------------------ MODULE Connect ------------------------------
(***************************************************************************)
(* How a session comes about: the controlling side (client.rs, Client)     *)
(* asks hbbs for the other one, tries to reach it directly, falls back to  *)
(* a relay, and the two then agree on a key, or on none.  The other one    *)
(* (rendezvous_mediator.rs, server.rs) makes a link for each message that  *)
(* reaches it: a listener, or a stream to hbbr under some uuid.            *)
(*                                                                         *)
(* What hbbs and hbbr do with the messages is in PunchHole and             *)
(* RelayPairing: here a message between the two may be lost or late, and   *)
(* the two ends of one uuid are one channel.  Left out: how long the time  *)
(* limits are, a host given by its address (no hbbs, no key), proxies.     *)
(***************************************************************************)
EXTENDS Naturals, Sequences, FiniteSets

CONSTANTS
  Link,      \* bound: the links that the other side makes
  None,
  Attempts,  \* attempts in either stage (3)
  Belief     \* what hbbs may say of the key: a subset of {"none", "bad", "good", "stale"}

ConnectAssumption ==
  /\ Attempts \in Nat \ {0} /\ None \notin Link
  /\ Belief \subseteq {"none", "bad", "good", "stale"}

VARIABLES
  phase,    \* A: "punch", "direct", "relay", "shake", "in", "failed"
  n,        \* the attempt of the stage
  waiting,  \* its request is out
  pk,       \* signed_id_pk
  server,   \* relay_server is not empty
  renamed,  \* the other side has another id by now than the one it is asked for by
  link,     \* the link it was led to, or has reached
  key,      \* A's stream has a key
  failures, \* PeerConfig.direct_failures
  calls,    \* what B has yet to act on: the stage and attempt it was sent in
  mail,     \* what A's socket of a stage and attempt may yet get
  b,        \* the links: state, kind, secure, key, frames to B, frames to A
  confirmed,\* B: key_confirmed
  history   \* "eaten": A's handshake took the first message of the session; "direct", "relayed"

fixed == <<server, renamed>>
aVars == <<phase, n, waiting, pk, fixed, link, key, failures>>
bVars == <<b, confirmed>>
vars == <<aVars, calls, mail, bVars, history>>

Free == [st |-> "free", kind |-> "none", secure |-> FALSE, key |-> FALSE, toB |-> <<>>, toA |-> <<>>]

Init ==
  /\ phase = "punch" /\ n = 1 /\ waiting = FALSE /\ pk = "none" /\ server \in BOOLEAN /\ renamed \in BOOLEAN /\ link = None
  /\ key = FALSE /\ failures \in {0, 1}
  /\ calls = {} /\ mail = {} /\ b = [l \in Link |-> Free] /\ confirmed = TRUE /\ history = {}

-----------------------------------------------------------------------------
(* A: _start, until it is told where the other side is. *)

\* The socket of the punch requests is one; each relay request has its own.
Socket == IF phase = "punch" THEN 0 ELSE n

\* A request of either stage. hbbs passes it on or not.
Ask ==
  /\ phase \in {"punch", "relay"} /\ ~waiting /\ n <= Attempts
  /\ waiting' = TRUE
  /\ calls' \in {calls, calls \cup {[stage |-> phase, n |-> n, secure |-> pk # "none"]}}
  /\ UNCHANGED <<phase, n, pk, fixed, link, key, failures, mail, bVars, history>>

\* next_timeout: 6, 12 and 18 s to punch, 18 s for a relay. A relay request has a socket of its own.
NoAnswer ==
  /\ phase \in {"punch", "relay"} /\ waiting
  /\ waiting' = FALSE /\ n' = n + 1
  /\ phase' = IF n < Attempts THEN phase ELSE "failed"
  /\ mail' = IF phase = "punch" THEN mail ELSE {}
  /\ UNCHANGED <<pk, fixed, link, key, failures, calls, bVars, history>>

\* An answer to this socket: a failure, where to connect to, or the uuid of a relay.
Answer(m) ==
  /\ waiting /\ m \in mail /\ m.socket = Socket
  /\ waiting' = FALSE /\ mail' = {}
  /\ \/ /\ m.m = "hole" /\ phase' = "direct"
        /\ \E p \in Belief : pk' = p
        /\ link' = m.link
     \/ /\ m.m = "relay" /\ phase = "punch" /\ phase' = "reach"
        /\ \E p \in Belief : pk' = p
        /\ link' = m.link
     \/ /\ m.m = "relay" /\ phase = "relay" /\ phase' = "reach"
        /\ link' = m.link /\ UNCHANGED pk
  /\ UNCHANGED <<n, fixed, key, failures, calls, bVars, history>>

\* hbbs refuses: offline, no such id, wrong key, or a reason of its own.
Refused ==
  /\ phase \in {"punch", "relay"} /\ waiting
  /\ phase' = "failed" /\ waiting' = FALSE
  /\ UNCHANGED <<n, pk, fixed, link, key, failures, calls, mail, bVars, history>>

-----------------------------------------------------------------------------
(* A: connect. *)

\* Mutant of Noted: a relay is noted even where there was none.
Noted_Any(direct) == IF direct THEN 1 ELSE 0

\* direct_failures, where there is a relay server to choose.
Noted(direct) == IF server /\ (failures = 0) # direct THEN (IF direct THEN 0 ELSE 1) ELSE failures

\* The listener is there and is reached.
Direct ==
  /\ phase = "direct" /\ b[link].st = "listen"
  /\ phase' = "shake" /\ failures' = Noted(TRUE) /\ history' = history \cup {"direct"}
  /\ b' = [b EXCEPT ![link].st = "accepted"]
  /\ UNCHANGED <<n, waiting, pk, fixed, link, key, calls, mail, confirmed>>

\* It is not, within the time that the kinds of NAT and earlier failures let it have.
NotDirect ==
  /\ phase = "direct"
  /\ phase' = IF server THEN "relay" ELSE "failed"
  /\ n' = 1 /\ link' = None
  /\ UNCHANGED <<waiting, pk, fixed, key, failures, calls, mail, bVars, history>>

\* create_relay: the stream to hbbr under the uuid of the link; the one who asked for it notes the failure.
Reach ==
  /\ phase = "reach"
  /\ \/ /\ phase' = "shake"
        /\ failures' = IF b[link].kind = "asked" THEN Noted(FALSE) ELSE failures
        /\ history' = history \cup {"relayed"}
     \/ phase' = "failed" /\ UNCHANGED <<failures, history>>
  /\ UNCHANGED <<n, waiting, pk, fixed, link, key, calls, mail, bVars>>

-----------------------------------------------------------------------------
(* A: secure_connection. *)

Verified == pk \in {"good", "stale"}

Send(f) == b' = [b EXCEPT ![link].toB = Append(@, f)]

\* Without a key that hbbs vouches for: an empty message, in case the other side waits for one.
ShakeBlank ==
  /\ phase = "shake" /\ ~Verified
  /\ Send("blank") /\ phase' = "in"
  /\ UNCHANGED <<n, waiting, pk, fixed, link, key, failures, calls, mail, confirmed, history>>

\* The signature is that of the key (and the id the one asked for): a key is sent. Another key: an
\* empty one, which makes the other side register again. Another id: an empty message.
OnSigned ==
  IF pk = "stale" THEN Send("empty") /\ UNCHANGED key
  ELSE IF renamed THEN Send("blank") /\ UNCHANGED key
  ELSE Send("key") /\ key' = TRUE

Shake ==
  /\ phase = "shake" /\ Verified /\ b[link].toA # <<>>
  /\ IF Head(b[link].toA) = "signed"
     THEN OnSigned /\ UNCHANGED history
     ELSE Send("blank") /\ history' = history \cup {"eaten"} /\ UNCHANGED key
  /\ phase' = "in"
  /\ UNCHANGED <<n, waiting, pk, fixed, link, failures, calls, mail, confirmed>>

\* 18 s without a message, or the stream ends.
ShakeFails ==
  /\ phase = "shake"
  /\ phase' = "failed"
  /\ UNCHANGED <<n, waiting, pk, fixed, link, key, failures, calls, mail, bVars, history>>

-----------------------------------------------------------------------------
(* B. *)

Made(l, kind, secure) ==
  b' = [b EXCEPT ![l] = [Free EXCEPT !.st = IF kind = "direct" THEN "listen" ELSE "dial", !.kind = kind, !.secure = secure]]

Says(c, what, l) ==
  mail' \in {mail, mail \cup {[socket |-> IF c.stage = "punch" THEN 0 ELSE c.n, m |-> what, link |-> l]}}

\* handle_punch_hole and handle_intranet: a listener where the answer was sent from, or, with a
\* symmetric NAT, a relay of its own choice; handle_request_relay: the relay asked for.
OnCall(c, l) ==
  /\ \/ c.stage = "punch" /\ Made(l, "direct", TRUE) /\ Says(c, "hole", l)
     \/ c.stage = "punch" /\ Made(l, "relayed", TRUE) /\ Says(c, "relay", l)
     \/ c.stage = "relay" /\ Made(l, "asked", c.secure) /\ Says(c, "relay", l)
  /\ calls' = calls \ {c}
  /\ UNCHANGED <<aVars, confirmed, history>>

Take(c, l) == c \in calls /\ b[l].st = "free" /\ OnCall(c, l)

\* create_tcp_connection: the stream is there; a secure one starts with the signed id, any other with
\* the session itself.
Begin(l) ==
  /\ b[l].st \in {"dial", "accepted"}
  /\ b' = IF b[l].secure THEN [b EXCEPT ![l].st = "shake", ![l].toA = Append(@, "signed")]
          ELSE [b EXCEPT ![l].st = "in", ![l].toA = Append(@, "hash")]
  /\ UNCHANGED <<aVars, calls, mail, confirmed, history>>

\* The public key, or none: the session starts in any case.
OnKey(l, f) ==
  /\ b' = [b EXCEPT ![l].st = "in", ![l].toB = Tail(@), ![l].key = (f = "key"), ![l].toA = Append(@, "hash")]
  /\ confirmed' = (confirmed /\ f # "empty")

Shaken(l) ==
  /\ b[l].st = "shake" /\ b[l].toB # <<>>
  /\ OnKey(l, Head(b[l].toB))
  /\ UNCHANGED <<aVars, calls, mail, history>>

\* 18 s without a client or its key, hbbr out of reach, or a stream that ends.
GiveUp(l) ==
  /\ b[l].st \in {"listen", "dial", "accepted", "shake"}
  /\ b' = [b EXCEPT ![l].st = "gone"]
  /\ UNCHANGED <<aVars, calls, mail, confirmed, history>>

\* The mediator registers the key with hbbs anew (Mediator).
Register ==
  /\ ~confirmed /\ confirmed' = TRUE /\ history' = history \cup {"registered"}
  /\ UNCHANGED <<aVars, calls, mail, b>>

A == Ask \/ NoAnswer \/ (\E m \in mail : Answer(m)) \/ Refused \/ Direct \/ NotDirect \/ Reach
     \/ ShakeBlank \/ Shake \/ ShakeFails
B(l) == Begin(l) \/ Shaken(l) \/ GiveUp(l)

Next == A \/ (\E l \in Link : B(l) \/ \E c \in calls : Take(c, l)) \/ Register

\* A goes on or its time limits run out, and so do those of B.
Fairness == WF_vars(A) /\ \A l \in Link : WF_vars(B(l))

Spec == Init /\ [][Next]_vars /\ Fairness

-----------------------------------------------------------------------------
(* Properties. *)

Reached == link # None /\ phase \in {"shake", "in"}

TypeOK ==
  /\ phase \in {"punch", "direct", "relay", "reach", "shake", "in", "failed"}
  /\ n \in 1 .. Attempts + 1 /\ pk \in {"none", "bad", "good", "stale"} /\ link \in Link \cup {None}
  /\ failures \in {0, 1} /\ {key, server, renamed, waiting, confirmed} \subseteq BOOLEAN
  /\ \A l \in Link : /\ b[l].st \in {"free", "listen", "accepted", "dial", "shake", "in", "gone"}
                     /\ b[l].toB # <<>> => l = link
                     /\ b[l].st = "in" /\ b[l].secure => "key" \notin {b[l].toB[i] : i \in DOMAIN b[l].toB}
  /\ phase = "reach" => link # None

\* In a session both ends have the key or neither has, whatever hbbs said of it and however the two
\* found each other.
BothOrNone == Reached /\ phase = "in" /\ b[link].st = "in" => key = b[link].key

\* The handshake never takes the challenge that the session starts with: an end that expects a
\* signature is led to one that sends it.
NothingEaten == "eaten" \notin history

\* Who finds that the other side has another key than hbbs says makes it register again.
MismatchIsReported ==
  Reached /\ phase = "in" /\ b[link].st = "in" /\ pk = "stale" => ~confirmed \/ "registered" \in history

\* A session with a key is with the one whom hbbs vouched for.
KeyIsVouched == key => pk = "good" /\ ~renamed

\* What is remembered of direct connections is what the last one with a choice was like.
FailuresAreTrue ==
  [][failures' # failures => server /\ phase' = "shake" /\ (failures' = 0) = (b[link].kind = "direct")]_vars

\* It ends: in a session or not.
Ends == <>(phase \in {"in", "failed"})

\* A link that no one comes for is given up.
LinksEnd == \A l \in Link : b[l].st # "free" ~> b[l].st \in {"in", "gone"}
=============================================================================
