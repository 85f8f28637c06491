------------------------------ MODULE HbbsLoop ------------------------------
(***************************************************************************)
(* The sockets of hbbs (start and io_loop of rendezvous_server.rs): one of *)
(* UDP and three listeners.  io_loop ends when one of them fails, start    *)
(* drops that one, opens it again and goes on; when it cannot be opened    *)
(* the program ends.                                                       *)
(*                                                                         *)
(* A UDP socket may also go deaf: nothing arrives, and no error either.    *)
(* test_hbbs sends itself a datagram every second, and ends the program    *)
(* when none has been answered for a while; the task itself ends when it   *)
(* cannot send.                                                            *)
(***************************************************************************)
EXTENDS Naturals

CONSTANTS
  Patience,  \* the seconds without an answer test_hbbs puts up with: 12
  MaxFaults  \* bound

HbbsLoopAssumption == {Patience, MaxFaults} \subseteq Nat

Socket == {"udp", "listener", "listener2", "listener3"}

VARIABLES
  pc,     \* "loop", "stalled" (in a handler), "reopen", "ended"
  failed, \* the socket to be opened again
  sock,   \* "ok", "broken" (its next use fails), "deaf", "none"
  dog,    \* test_hbbs runs
  quiet,  \* the seconds since its last answer
  probe,  \* its last datagram: "none", "sent", "answered"
  faults

vars == <<pc, failed, sock, dog, quiet, probe, faults>>
watch == <<dog, quiet, probe>>

Init ==
  /\ pc = "loop" /\ failed = "udp" /\ sock = [k \in Socket |-> "ok"]
  /\ dog \in BOOLEAN  \* TEST_HBBS=no
  /\ quiet = 0 /\ probe = "none" /\ faults = 0

Fault == faults < MaxFaults /\ faults' = faults + 1
Running == pc # "ended"

-----------------------------------------------------------------------------
(* start and io_loop. *)

\* mutant: a listener that fails is asked again
Fails_Udp(k) ==
  /\ pc = "loop" /\ sock[k] = "broken" /\ k = "udp"
  /\ pc' = "reopen" /\ failed' = k
  /\ UNCHANGED <<sock, watch, faults>>

Fails(k) ==
  /\ pc = "loop" /\ sock[k] = "broken"
  /\ pc' = "reopen" /\ failed' = k
  /\ UNCHANGED <<sock, watch, faults>>

\* The answer to a datagram cannot be sent: the socket is taken for failed.
SendFails ==
  /\ pc = "loop" /\ sock["udp"] = "ok" /\ Fault
  /\ pc' = "reopen" /\ failed' = "udp"
  /\ UNCHANGED <<sock, watch>>

\* The old one is dropped first: the address would be in use.
Drop ==
  /\ pc = "reopen" /\ sock[failed] # "none"
  /\ sock' = [sock EXCEPT ![failed] = "none"]
  /\ probe' = IF failed = "udp" THEN "none" ELSE probe
  /\ UNCHANGED <<pc, failed, dog, quiet, faults>>

Open ==
  /\ pc = "reopen" /\ sock[failed] = "none"
  /\ \/ sock' = [sock EXCEPT ![failed] = "ok"] /\ pc' = "loop" /\ UNCHANGED faults
     \/ Fault /\ pc' = "ended" /\ UNCHANGED sock
  /\ UNCHANGED <<failed, watch>>

\* A handler waits, for the database or for another task's lock.
Stall ==
  /\ pc = "loop" /\ Fault /\ pc' = "stalled"
  /\ UNCHANGED <<failed, sock, watch>>
Resume ==
  /\ pc = "stalled" /\ pc' = "loop"
  /\ UNCHANGED <<failed, sock, watch, faults>>

\* handle_udp answers the datagram.
Answer ==
  /\ pc = "loop" /\ sock["udp"] = "ok" /\ probe = "sent" /\ probe' = "answered"
  /\ UNCHANGED <<pc, failed, sock, dog, quiet, faults>>

-----------------------------------------------------------------------------
(* test_hbbs. *)

\* A datagram a second; the one before may still be on its way, this stands for both.
Tick ==
  /\ Running /\ dog /\ quiet <= Patience
  /\ quiet' = quiet + 1 /\ probe' = (IF probe = "answered" THEN probe ELSE "sent")
  /\ UNCHANGED <<pc, failed, sock, dog, faults>>

CannotSend ==
  /\ Running /\ dog /\ Fault /\ dog' = FALSE
  /\ UNCHANGED <<pc, failed, sock, quiet, probe>>

Answered ==
  /\ Running /\ dog /\ probe = "answered" /\ probe' = "none" /\ quiet' = 0
  /\ UNCHANGED <<pc, failed, sock, dog, faults>>

Kill ==
  /\ Running /\ dog /\ quiet > Patience /\ pc' = "ended"
  /\ UNCHANGED <<failed, sock, watch, faults>>

-----------------------------------------------------------------------------
\* The system.
Break(k) ==
  /\ Running /\ sock[k] \in {"ok", "deaf"} /\ Fault /\ sock' = [sock EXCEPT ![k] = "broken"]
  /\ UNCHANGED <<pc, failed, watch>>
Deafen ==
  /\ Running /\ sock["udp"] = "ok" /\ Fault /\ sock' = [sock EXCEPT !["udp"] = "deaf"]
  /\ probe' = IF probe = "sent" THEN "none" ELSE probe
  /\ UNCHANGED <<pc, failed, dog, quiet>>
Lose ==
  /\ probe # "none" /\ Fault /\ probe' = "none"
  /\ UNCHANGED <<pc, failed, sock, dog, quiet>>

Loop == (\E k \in Socket : Fails(k)) \/ SendFails \/ Drop \/ Open \/ Stall \/ Resume \/ Answer
Watch == Tick \/ CannotSend \/ Answered \/ Kill
System == (\E k \in Socket : Break(k)) \/ Deafen \/ Lose
Next == Loop \/ Watch \/ System

Fairness ==
  /\ \A k \in Socket : WF_vars(Fails(k))
  /\ WF_vars(Drop) /\ WF_vars(Open) /\ WF_vars(Resume) /\ WF_vars(Answer)
  /\ WF_vars(Tick) /\ WF_vars(Answered) /\ WF_vars(Kill)

Spec == Init /\ [][Next]_vars /\ Fairness

-----------------------------------------------------------------------------
(* Properties. *)

TypeOK ==
  /\ pc \in {"loop", "stalled", "reopen", "ended"} /\ failed \in Socket
  /\ sock \in [Socket -> {"ok", "broken", "deaf", "none"}]
  /\ \A k \in Socket : sock[k] = "deaf" => k = "udp"
  /\ dog \in BOOLEAN /\ quiet \in 0..(Patience + 1) /\ probe \in {"none", "sent", "answered"}
  /\ faults \in 0..MaxFaults

\* The loop never runs without one of its sockets: opened again, or the program ends.
AllOpen == pc \in {"loop", "stalled"} => \A k \in Socket : sock[k] # "none"

\* A socket that fails is opened again, unless the program ends, or it fails again.
Recovers == \A k \in Socket : sock[k] = "broken" ~> sock[k] \in {"ok", "deaf"} \/ ~Running

\* A deaf socket does not stay: the program ends - unless its watch has not been started, or has
\* ended because it could not send.
DeafEnds == sock["udp"] = "deaf" ~> sock["udp"] # "deaf" \/ ~Running \/ ~dog
=============================================================================
