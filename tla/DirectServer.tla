---------------------------- MODULE DirectServer ----------------------------
(***************************************************************************)
(* The direct access of the client                                         *)
(* (src/KdDeskTC_Client/src/rendezvous_mediator.rs, direct_server): a task *)
(* of its own keeps a TCP listener on the port the options name while they *)
(* switch direct access on, and makes a connection of whoever calls.       *)
(***************************************************************************)
EXTENDS Naturals, FiniteSets

CONSTANTS Port,       \* the ports an option may name
          Caller,     \* the machines that call
          None,       \* no listener
          MaxChanges, \* how often the options change
          MaxHolds    \* how often another program takes or frees a port

NoneAssumption == None \notin Port /\ {MaxChanges, MaxHolds} \subseteq Nat

VARIABLES enabled,  \* the option direct-server is not empty
          portOpt,  \* get_direct_port()
          held,     \* the ports another program has
          pc,       \* where the task is
          disabled, \* what it read of the option at the head of its loop
          port,     \* the port it read last
          listener, \* the port its listener has, or None
          caller,   \* where a machine's call stands
          late,     \* how many were let in since the switch went off, and since another
                    \* port than the listener's was named
          budget    \* the changes left

options == <<enabled, portOpt>>
task == <<pc, disabled, port>>
vars == <<options, held, task, listener, caller, late, budget>>

TypeOK ==
    /\ enabled \in BOOLEAN /\ portOpt \in Port
    /\ held \subseteq Port \ {listener}
    /\ pc \in {"top", "listen", "retry", "check", "accept"}
    /\ disabled \in BOOLEAN /\ port \in Port \union {None}
    /\ listener \in Port \union {None}
    /\ caller \in [Caller -> {"idle", "waits", "in", "reset"}]
    /\ late \in [off : Nat, port : Nat]
    /\ budget \in [changes : 0..MaxChanges, holds : 0..MaxHolds]

Init ==
    /\ enabled \in BOOLEAN /\ portOpt \in Port
    /\ held \in SUBSET Port
    /\ pc = "top" /\ disabled = TRUE /\ port = None
    /\ listener = None
    /\ caller = [k \in Caller |-> "idle"]
    /\ late = [off |-> 0, port |-> 0]
    /\ budget = [changes |-> MaxChanges, holds |-> MaxHolds]

-----------------------------------------------------------------------------
(* The window changes the options; other programs take and free ports;      *)
(* machines call.                                                           *)

SetOptions ==
    /\ budget.changes > 0
    /\ budget' = [budget EXCEPT !.changes = @ - 1]
    /\ \/ /\ enabled' = ~enabled
          /\ late' = [late EXCEPT !.off = 0]
          /\ UNCHANGED portOpt
       \/ /\ portOpt' \in Port \ {portOpt}
          /\ late' = IF portOpt = listener THEN [late EXCEPT !.port = 0] ELSE late
          /\ UNCHANGED enabled
    /\ UNCHANGED <<held, task, listener, caller>>

Hold ==
    /\ budget.holds > 0
    /\ budget' = [budget EXCEPT !.holds = @ - 1]
    /\ \E p \in Port \ {listener} :
          held' = IF p \in held THEN held \ {p} ELSE held \union {p}
    /\ UNCHANGED <<options, task, listener, caller, late>>

\* The kernel answers for the listener: the call waits there to be accepted.
Call(k) ==
    /\ caller[k] \in {"idle", "reset"} /\ listener # None
    /\ caller' = [caller EXCEPT ![k] = "waits"]
    /\ UNCHANGED <<options, held, task, listener, late, budget>>

\* A connection ends, and its machine may call again.
HangUp(k) ==
    /\ caller[k] = "in"
    /\ caller' = [caller EXCEPT ![k] = "idle"]
    /\ UNCHANGED <<options, held, task, listener, late, budget>>

-----------------------------------------------------------------------------
(* The task.                                                                *)

\* The head of the loop: the first of the two options is read.
Top ==
    /\ pc = "top"
    /\ disabled' = ~enabled
    /\ pc' = IF listener # None THEN "check" ELSE IF enabled THEN "listen" ELSE "top"
    /\ UNCHANGED <<options, held, port, listener, caller, late, budget>>

\* new_listener, without the reuse of an address: refused when the port is another's.
Listen ==
    /\ pc = "listen"
    /\ port' = portOpt
    /\ IF portOpt \in held
       THEN pc' = "retry" /\ UNCHANGED listener
       ELSE pc' = "check" /\ listener' = portOpt
    /\ UNCHANGED <<options, held, disabled, caller, late, budget>>

\* A refused port is given up only when the options name another.
Retry ==
    /\ pc = "retry" /\ port # portOpt
    /\ pc' = "top"
    /\ UNCHANGED <<options, held, disabled, port, listener, caller, late, budget>>

\* Dropping the listener resets the calls that wait in its queue.
Drop ==
    /\ listener' = None /\ late' = [late EXCEPT !.port = 0]
    /\ caller' = [k \in Caller |-> IF caller[k] = "waits" THEN "reset" ELSE caller[k]]

\* With a listener: is it still the one asked for?  Of the switch it is the value read
\* at the head that counts, of the port the present one.
Check ==
    /\ pc = "check"
    /\ IF disabled \/ port # portOpt
       THEN pc' = "top" /\ Drop
       ELSE pc' = "accept" /\ UNCHANGED <<listener, caller, late>>
    /\ UNCHANGED <<options, held, disabled, port, budget>>

LetIn(k) ==
    /\ caller' = [caller EXCEPT ![k] = "in"]
    /\ late' = [off  |-> IF enabled THEN late.off ELSE late.off + 1,
                port |-> IF portOpt = listener THEN late.port ELSE late.port + 1]

\* One call is accepted, and its connection made by a task of its own ...
Accept(k) ==
    /\ pc = "accept" /\ caller[k] = "waits"
    /\ pc' = "top"
    /\ LetIn(k)
    /\ UNCHANGED <<options, held, disabled, port, listener, budget>>

\* ... or none came within a second.
NoCall ==
    /\ pc = "accept" /\ \A k \in Caller : caller[k] # "waits"
    /\ pc' = "top"
    /\ UNCHANGED <<options, held, disabled, port, listener, caller, late, budget>>

Task == Top \/ Listen \/ Retry \/ Check \/ NoCall \/ \E k \in Caller : Accept(k)
Environment == SetOptions \/ Hold \/ \E k \in Caller : Call(k) \/ HangUp(k)

Next == Task \/ Environment

(* The task is scheduled, and every one of its waits ends within a second;  *)
(* accept() hands out the calls in the order they came, so that none is     *)
(* passed over for ever.                                                    *)
Fairness == WF_vars(Task) /\ \A k \in Caller : SF_vars(Accept(k))

Spec == Init /\ [][Next]_vars /\ Fairness

-----------------------------------------------------------------------------
(* Once direct access has been switched off, and once another port is named *)
(* than the listener's, at most one more call is let in: the one the task   *)
(* was waiting for at that moment.                                          *)
OneLateAtMost == late.off <= 1 /\ late.port <= 1

(* Without another program on the port, the listener comes to be as the     *)
(* options have it.  A port that was another's when it was tried is not     *)
(* tried again before the options name a different one.                     *)
ListensAsConfigured ==
    \A p \in Port : <>[](enabled /\ portOpt = p) => <>[](listener = p \/ pc = "retry")

(* Switched off for good, the port is freed, also by a task that waits for  *)
(* another port.                                                            *)
FreedWhenOff == <>[](~enabled) => <>[](listener = None)

(* Who has been let into the queue is served, or told that nobody will.     *)
NoneIsLeftWaiting == \A k \in Caller : caller[k] = "waits" ~> caller[k] # "waits"
=============================================================================
