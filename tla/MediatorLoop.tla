---------------------------- MODULE MediatorLoop ----------------------------
(***************************************************************************)
(* How the mediators are started and started again (start_all, restart of  *)
(* rendezvous_mediator.rs): one loop reads the rendezvous servers, clears  *)
(* SHOULD_EXIT, runs a task per server and waits for all of them to end.   *)
(* Those who change the options (a configure_update from a server, the     *)
(* user through ipc.rs) compare what the options were before and after and *)
(* set SHOULD_EXIT if the servers, or stop-service, have changed.          *)
(*                                                                         *)
(* The loop, its tasks and the setters run on threads of their own; no     *)
(* lock spans two of the steps below.                                      *)
(***************************************************************************)
EXTENDS Naturals, FiniteSets

CONSTANTS
  Server,  \* the rendezvous servers there may be
  Setter,  \* the threads that change the options
  None,
  MaxSets  \* bound: changes of the options

LoopAssumption ==
  None \notin Server /\ MaxSets \in Nat

VARIABLES
  pc,      \* where the loop is
  option,  \* the servers of the options; {} while stop-service is set
  used,    \* the servers the tasks of this round are for
  tasks,   \* the tasks that run
  exit,    \* SHOULD_EXIT
  before,  \* what a setter has seen of the options before its change
  wrote,   \* the setters that have made their change
  sets,    \* bound: changes so far
  lapsed   \* history: a restart asked for was cleared with the servers read before it,
           \* or two setters changed the options between each other's comparisons

\* What a setter that changes nothing has seen.
Unread == {None}

loop == <<pc, used, tasks>>
setters == <<before, wrote, sets>>
vars == <<loop, option, exit, setters, lapsed>>

Init ==
  /\ pc = "check" /\ used = {} /\ tasks = {}
  /\ option \in SUBSET Server
  /\ exit = FALSE
  /\ before = [s \in Setter |-> Unread]
  /\ wrote = {} /\ sets = 0
  /\ lapsed = FALSE

-----------------------------------------------------------------------------
\* With stop-service the loop sleeps and checks again.
Stopped ==
  /\ pc = "check" /\ option = {}
  /\ UNCHANGED vars

Check ==
  /\ pc = "check" /\ option # {}
  /\ pc' = "read"
  /\ UNCHANGED <<used, tasks, option, exit, setters, lapsed>>

\* get_rendezvous_servers: stop-service is not looked at any more.
Read ==
  /\ pc = "read"
  /\ used' = option
  /\ pc' = "reset"
  /\ UNCHANGED <<tasks, option, exit, setters, lapsed>>

\* SHOULD_EXIT.store(false), and a task is spawned for each of the servers read.
Reset ==
  /\ pc = "reset"
  /\ exit' = FALSE
  /\ pc' = "join" /\ tasks' = used
  /\ lapsed' = (lapsed \/ (exit /\ used # option))
  /\ UNCHANGED <<used, option, setters>>

\* A task ends: SHOULD_EXIT is set, or it has failed. The others are to end as well.
End(h) ==
  /\ h \in tasks
  /\ tasks' = tasks \ {h}
  /\ exit' = TRUE
  /\ UNCHANGED <<pc, used, option, setters, lapsed>>

\* join_all returns, a second later the loop goes on.
Joined ==
  /\ pc = "join" /\ tasks = {}
  /\ pc' = "check"
  /\ UNCHANGED <<used, tasks, option, exit, setters, lapsed>>

-----------------------------------------------------------------------------
\* A setter reads what the options are (Data::Options, CheckIfRestart::new,
\* configure_update), ...
Before(s) ==
  /\ before[s] = Unread /\ sets < MaxSets
  /\ before' = [before EXCEPT ![s] = option]
  /\ sets' = sets + 1
  /\ UNCHANGED <<loop, option, exit, wrote, lapsed>>

\* ... changes them ...
Write(s, o) ==
  /\ before[s] # Unread /\ s \notin wrote
  /\ option' = o
  /\ wrote' = wrote \cup {s}
  /\ lapsed' = (lapsed \/ \E t \in Setter \ {s} : before[t] # Unread)
  /\ UNCHANGED <<loop, exit, before, sets>>

\* ... and restarts the mediators if they are others now.
Compare(s) ==
  /\ s \in wrote
  /\ exit' = (exit \/ option # before[s])
  /\ before' = [before EXCEPT ![s] = Unread]
  /\ wrote' = wrote \ {s}
  /\ UNCHANGED <<loop, option, sets, lapsed>>

LoopNext == Stopped \/ Check \/ Read \/ Reset \/ Joined

Next ==
  \/ LoopNext
  \/ \E h \in Server : End(h)
  \/ \E s \in Setter :
       \/ Before(s) \/ Compare(s)
       \/ \E o \in SUBSET Server : Write(s, o)

\* The loop and the setters go on; a task looks at SHOULD_EXIT each second.
Fairness ==
  /\ WF_vars(LoopNext)
  /\ \A h \in Server : WF_vars(exit /\ End(h))
  /\ \A s \in Setter : WF_vars(Compare(s)) /\ WF_vars(\E o \in SUBSET Server : Write(s, o))

Spec == Init /\ [][Next]_vars /\ Fairness

-----------------------------------------------------------------------------
TypeOK ==
  /\ pc \in {"check", "read", "reset", "join"}
  /\ option \subseteq Server /\ used \subseteq Server /\ tasks \subseteq used
  /\ tasks # {} => pc = "join"
  /\ exit \in BOOLEAN
  /\ before \in [Setter -> {Unread} \cup SUBSET Server]
  /\ wrote \subseteq Setter /\ \A s \in wrote : before[s] # Unread
  /\ sets \in 0 .. MaxSets
  /\ lapsed \in BOOLEAN

\* Mediators that go on running are those of the options, or someone is still about to
\* restart them, unless a restart has lapsed.
RunsAsConfigured ==
  pc = "join" /\ ~exit /\ used # option /\ wrote = {} => lapsed

\* Once nothing changes any more, the mediators run for the servers of the options, and
\* for none with stop-service, again and again if tasks fail; unless a restart lapsed.
Settled ==
  \/ pc = "check" /\ option = {}
  \/ pc = "join" /\ used = option
SettlesUnlessLapsed == []<>(Settled \/ lapsed)

\* A task that fails takes the others with it, so the round ends and another begins.
RoundsEnd == []<>(pc = "join" => tasks = used)
=============================================================================
