------------------------------ MODULE Discovery -----------------------------
(***************************************************************************)
(* The search for machines of the local network                            *)
(* (src/KdDeskTC_Client/src/rendezvous_mediator.rs, discover and           *)
(* lan_discovery): every click starts a thread that broadcasts a ping,     *)
(* gathers the answers, and writes the list to a file, which the window    *)
(* reads.  Two clicks' threads run side by side and know nothing of each   *)
(* other.                                                                  *)
(***************************************************************************)
EXTENDS Naturals, Sequences, SequencesExt

CONSTANTS Run,     \* the clicks
          Host,    \* the machines of the network that run the client, this one among them
          Own,     \* this machine
          Macs,    \* the machines' hardware addresses; "" is that of one without
          Torn     \* a file that does not parse

OwnAssumption == Own \in Host
MacsAssumption == Macs \in [Host -> STRING]

Nobody == "nobody"
NamesAssumption == Torn \notin Seq(Host) /\ Nobody \notin Run

VARIABLES pc,     \* where a run's thread is
          pings,  \* the machines its ping is on the way to
          pongs,  \* the machines whose answer is on the way back
          peers,  \* the list it has gathered
          stored, \* last_write_n
          file,   \* what the file of LanPeers holds
          clean,  \* the file has been emptied by this run and not written since
          shown,  \* the list in the window
          heard,  \* the machines that answered it in time
          collided, \* two runs wrote into the file at the same time
          last      \* the run that wrote last

vars == <<pc, pings, pongs, peers, stored, file, clean, shown, heard, collided, last>>

TypeOK ==
    /\ pc \in [Run -> {"idle", "gathers", "writes", "wrote", "last", "done", "failed"}]
    /\ \A r \in Run : pings[r] \subseteq Host /\ pongs[r] \subseteq Host
    /\ \A r \in Run : peers[r] \in Seq(Host) /\ stored[r] \in 0..Len(peers[r])
    /\ file = Torn \/ file \in Seq(Host)
    /\ clean \in [Run -> BOOLEAN]
    /\ shown \in Seq(Host)
    /\ \A r \in Run : heard[r] \subseteq Host
    /\ collided \in BOOLEAN /\ last \in Run \union {Nobody}

Init ==
    /\ pc = [r \in Run |-> "idle"]
    /\ pings = [r \in Run |-> {}] /\ pongs = [r \in Run |-> {}]
    /\ peers = [r \in Run |-> <<>>] /\ stored = [r \in Run |-> 0]
    /\ file = <<>> /\ clean = [r \in Run |-> FALSE] /\ shown = <<>>
    /\ heard = [r \in Run |-> {}]
    /\ collided = FALSE /\ last = Nobody

-----------------------------------------------------------------------------
(* A click, and the network.                                                *)

\* The thread binds a socket and broadcasts; it may fail to.
Discover(r) ==
    /\ pc[r] = "idle"
    /\ \/ /\ pc' = [pc EXCEPT ![r] = "gathers"]
          /\ pings' = [pings EXCEPT ![r] = Host]
       \/ pc' = [pc EXCEPT ![r] = "failed"] /\ UNCHANGED pings
    /\ UNCHANGED <<pongs, peers, stored, file, clean, shown, heard, collided, last>>

\* lan_discovery of a machine answers a ping.
Answer(r, h) ==
    /\ h \in pings[r]
    /\ pings' = [pings EXCEPT ![r] = @ \ {h}]
    /\ pongs' = [pongs EXCEPT ![r] = @ \union {h}]
    /\ UNCHANGED <<pc, peers, stored, file, clean, shown, heard, collided, last>>

\* Either way a datagram may be lost.
Lose(r, h) ==
    /\ h \in pings[r] \union pongs[r]
    /\ pings' = [pings EXCEPT ![r] = @ \ {h}] /\ pongs' = [pongs EXCEPT ![r] = @ \ {h}]
    /\ UNCHANGED <<pc, peers, stored, file, clean, shown, heard, collided, last>>

-----------------------------------------------------------------------------
(* The thread of a click.                                                   *)

\* The answers of this machine are told by their address: those of two machines that
\* have none are alike.
Other(h) == Macs[h] # Macs[Own]

Hear(r, h) ==
    /\ pc[r] = "gathers" /\ h \in pongs[r]
    /\ pongs' = [pongs EXCEPT ![r] = @ \ {h}]
    /\ peers' = IF Other(h) THEN [peers EXCEPT ![r] = Append(@, h)] ELSE peers
    /\ heard' = [heard EXCEPT ![r] = @ \union {h}]
    /\ UNCHANGED <<pc, pings, stored, file, clean, shown, collided, last>>

\* confy opens the file and empties it ...
Open(r, next) ==
    /\ file' = <<>>
    /\ clean' = [q \in Run |-> q = r \/ clean[q]]
    /\ pc' = [pc EXCEPT ![r] = next]
    /\ UNCHANGED <<pings, pongs, peers, stored, shown, heard, collided, last>>

\* ... three tenths of a second after the last time, if the list has grown ...
Store(r) ==
    /\ pc[r] = "gathers" /\ stored[r] # Len(peers[r])
    /\ Open(r, "writes")

\* ... and for the last time when nothing has been heard for three seconds.
Finish(r) ==
    /\ pc[r] = "gathers"
    /\ Open(r, "last")

\* What the text of r leaves in the file over the text of another run: the shorter
\* leaves the end of the longer one behind it.
Over(r) ==
    IF clean[r] \/ (file # Torn /\ Len(file) <= Len(peers[r])) THEN peers[r] ELSE Torn

\* The text is written, from the beginning of the file.
Write(r) ==
    /\ pc[r] \in {"writes", "last"}
    /\ file' = Over(r)
    /\ collided' = (collided \/ ~clean[r])
    /\ clean' = [q \in Run |-> FALSE]
    /\ stored' = [stored EXCEPT ![r] = Len(peers[r])]
    /\ pc' = [pc EXCEPT ![r] = IF @ = "last" THEN "done" ELSE "gathers"]
    /\ last' = r
    /\ UNCHANGED <<pings, pongs, peers, shown, heard>>

Gather(r) == Discover(r) \/ Store(r) \/ Finish(r) \/ Write(r) \/ \E h \in Host : Hear(r, h)

-----------------------------------------------------------------------------
(* The window reads the file whenever it is drawn; what does not parse is   *)
(* an empty list.                                                           *)
Render ==
    /\ shown' = IF file = Torn THEN <<>> ELSE file
    /\ UNCHANGED <<pc, pings, pongs, peers, stored, file, clean, heard, collided, last>>

Network == \E r \in Run, h \in Host : Answer(r, h) \/ Lose(r, h)

Next == Network \/ Render \/ \E r \in Run : Gather(r)

Spec == Init /\ [][Next]_vars

-----------------------------------------------------------------------------
Ended == \A r \in Run : pc[r] \in {"idle", "done", "failed"}

(* The window lists machines that answered, each of them once, and never    *)
(* this one: the list of a run neither goes on with that of another nor     *)
(* holds what only a half-written file could.                               *)
ShownIsHeard ==
    /\ IsInjective(shown)
    /\ \A i \in DOMAIN shown : shown[i] # Own /\ \E r \in Run : shown[i] \in heard[r]

(* When every search has ended, the file holds all that the one which wrote *)
(* last has heard from: neither an earlier state of its list nor an older   *)
(* search's.  Only two that write at the same time may leave less: a file   *)
(* that does not parse.                                                     *)
EndsInFull ==
    Ended /\ last # Nobody =>
        \/ collided
        \/ /\ file # Torn
           /\ ToSet(file) = {h \in heard[last] : Other(h)}
=============================================================================
