----------------------------- MODULE ConfigSync -----------------------------
(***************************************************************************)
(* The two copies of the configuration on macOS                            *)
(* (src/KdDeskTC_Client/src/server.rs, sync_and_watch_config_dir): the     *)
(* user's server takes the copy of the root's service once, when it has    *)
(* first reached it, and from then on sends it whatever changes.           *)
(***************************************************************************)
EXTENDS Naturals, Sequences

CONSTANTS Cfg,       \* what a configuration may be
          Tries,     \* how often the service is looked for
          MaxSets,   \* how often the user changes the configuration
          MaxDeaths  \* how often the service dies

Ack == "ack"
AskFor == "SyncConfig(None)"

TriesAssumption == Tries \in Nat \ {0} /\ {Ack, AskFor} \cap Cfg = {}

VARIABLES user,    \* the configuration of the user's server
          root,    \* that of the service, which outlives it in its file
          cfg0,    \* the one the task takes the two to have in common
          synced,  \* the service's copy has been taken
          pc, tries, \* where the task is
          up,      \* the service runs
          conn,    \* the task's connection: "none", "up", or "dead" with the service
          toRoot, toUser, \* what is on the way
          restart, \* the mediator is to start again
          runs,    \* the configuration it runs with
          lost,    \* the service died with a configuration on the way to it
          budget

link == <<up, conn, toRoot, toUser>>
task == <<cfg0, synced, pc, tries>>
mediator == <<restart, runs>>
vars == <<user, root, task, link, mediator, lost, budget>>

TypeOK ==
    /\ user \in Cfg /\ root \in Cfg /\ cfg0 \in Cfg /\ runs \in Cfg
    /\ synced \in BOOLEAN /\ up \in BOOLEAN /\ restart \in BOOLEAN /\ lost \in BOOLEAN
    /\ pc \in {"try", "ask", "asked", "watch", "sent", "skipped"}
    /\ tries \in 0..Tries
    /\ conn \in {"none", "up", "dead"}
    /\ toRoot \in Seq(Cfg \union {AskFor}) /\ toUser \in Seq(Cfg \union {Ack})
    /\ budget \in [sets : 0..MaxSets, deaths : 0..MaxDeaths]

Init ==
    /\ user \in Cfg /\ root \in Cfg
    /\ cfg0 = user /\ synced = FALSE /\ pc = "try" /\ tries = Tries
    /\ up \in BOOLEAN /\ conn = "none"
    /\ toRoot = <<>> /\ toUser = <<>>
    /\ restart = FALSE /\ runs = user
    /\ lost = FALSE
    /\ budget = [sets |-> MaxSets, deaths |-> MaxDeaths]

-----------------------------------------------------------------------------
\* The next round of the loop over the tries.
NextTry ==
    /\ tries' = tries - 1
    /\ pc' = IF tries = 1 THEN "skipped" ELSE "try"

Connect ==
    /\ pc = "try"
    /\ IF up
       THEN /\ conn' = "up"
            /\ toRoot' = <<>> /\ toUser' = <<>>
            /\ pc' = IF synced THEN "watch" ELSE "ask"
            /\ UNCHANGED tries
       ELSE NextTry /\ UNCHANGED <<conn, toRoot, toUser>>
    /\ UNCHANGED <<user, root, cfg0, synced, up, mediator, lost, budget>>

Ask ==
    /\ pc = "ask"
    /\ IF conn = "up"
       THEN toRoot' = Append(toRoot, AskFor) /\ pc' = "asked"
       ELSE pc' = "watch" /\ UNCHANGED toRoot
    /\ UNCHANGED <<user, root, cfg0, synced, tries, up, conn, toUser, mediator, lost, budget>>

\* CheckIfRestart: a change of what the mediator goes by makes it start again.
CheckIfRestart == restart' = (restart \/ user' # user)

\* The service's copy replaces the user's if it is not the one the task started with.
Take ==
    /\ pc = "asked" /\ toUser # <<>> /\ Head(toUser) \in Cfg
    /\ LET c == Head(toUser)
       IN  /\ user' = IF cfg0 # c THEN c ELSE user
           /\ cfg0' = c
    /\ CheckIfRestart
    /\ synced' = TRUE /\ pc' = "watch"
    /\ toUser' = Tail(toUser)
    /\ UNCHANGED <<root, tries, up, conn, toRoot, runs, lost, budget>>

\* No answer within a second, or none any more: the task watches all the same.
TakeFails ==
    /\ pc = "asked" /\ (conn = "up" \/ toUser = <<>>)
    /\ pc' = "watch"
    /\ UNCHANGED <<user, root, cfg0, synced, tries, link, mediator, lost, budget>>

\* Every 0.3 s: what has changed is sent, and counts as common once it is under way.
Push ==
    /\ pc = "watch" /\ user # cfg0 /\ conn = "up"
    /\ toRoot' = Append(toRoot, user)
    /\ cfg0' = user
    /\ pc' = "sent"
    /\ UNCHANGED <<user, root, synced, tries, up, conn, toUser, mediator, lost, budget>>

\* ... or tried again on the same connection.
PushFails_Stays ==
    /\ pc = "watch" /\ user # cfg0 /\ conn = "dead"
    /\ UNCHANGED vars

\* Only a failure to send shows that the service has gone.
PushFails ==
    /\ pc = "watch" /\ user # cfg0 /\ conn = "dead"
    /\ conn' = "none" /\ NextTry
    /\ UNCHANGED <<user, root, cfg0, synced, up, toRoot, toUser, mediator, lost, budget>>

\* Whatever comes within a second is taken for the answer.
Sent ==
    /\ pc = "sent"
    /\ pc' = "watch"
    /\ toUser' = IF toUser = <<>> THEN toUser ELSE Tail(toUser)
    /\ UNCHANGED <<user, root, cfg0, synced, tries, up, conn, toRoot, mediator, lost, budget>>

Watch == Connect \/ Ask \/ Take \/ TakeFails \/ Push \/ PushFails \/ Sent

-----------------------------------------------------------------------------
(* The service's end (ipc.rs, handle).                                      *)
Handle ==
    /\ up /\ toRoot # <<>>
    /\ LET m == Head(toRoot)
       IN  IF m = AskFor
           THEN toUser' = Append(toUser, root) /\ UNCHANGED root
           ELSE root' = m /\ toUser' = Append(toUser, Ack)
    /\ toRoot' = Tail(toRoot)
    /\ UNCHANGED <<user, task, up, conn, mediator, lost, budget>>

Die ==
    /\ up /\ budget.deaths > 0
    /\ budget' = [budget EXCEPT !.deaths = @ - 1]
    /\ up' = FALSE
    /\ conn' = IF conn = "up" THEN "dead" ELSE conn
    /\ lost' = (lost \/ \E i \in DOMAIN toRoot : toRoot[i] # AskFor)
    /\ toRoot' = <<>>
    /\ UNCHANGED <<user, root, task, toUser, mediator>>

Rise == ~up /\ up' = TRUE
        /\ UNCHANGED <<user, root, task, conn, toRoot, toUser, mediator, lost, budget>>

\* The user changes the configuration, by the window and the server's own IPC.
Set ==
    /\ budget.sets > 0
    /\ budget' = [budget EXCEPT !.sets = @ - 1]
    /\ user' \in Cfg \ {user}
    /\ restart' = TRUE
    /\ UNCHANGED <<root, task, link, runs, lost>>

\* The mediator starts again.
Rerun ==
    /\ restart
    /\ restart' = FALSE /\ runs' = user
    /\ UNCHANGED <<user, root, task, link, lost, budget>>

Next == Watch \/ Handle \/ Die \/ Rise \/ Set \/ Rerun

(* The task, the service while it runs, and the mediator are scheduled.     *)
Fairness == WF_vars(Watch) /\ WF_vars(Handle) /\ WF_vars(Rerun)

Spec == Init /\ [][Next]_vars /\ Fairness

-----------------------------------------------------------------------------
(* With nothing on the way the two copies are the same, unless the service  *)
(* died with one on the way (what was sent counts as received), or its own  *)
(* copy could never be taken.                                               *)
DifferenceIsExplained ==
    pc = "watch" /\ user = cfg0 /\ toRoot = <<>> => root = user \/ lost \/ ~synced

(* A change that cannot be sent is sent over the next connection: once the  *)
(* service stays up and the task has tries left, the copies come to agree.  *)
Agrees ==
    (/\ <>[]up /\ <>[]synced
     /\ [](~lost) /\ [](pc # "skipped")) => <>[](root = user)

(* Whoever changes the user's copy, the window or the service, the mediator *)
(* runs with it or is about to start again.                                 *)
RunsWithIt == runs # user => restart
=============================================================================
