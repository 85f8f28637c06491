------------------------------ MODULE Service ------------------------------
(***************************************************************************)
(* The subscribers of one service of the controlled side (service.rs):     *)
(* who gets what the service sends, and who has subscribed and waits for   *)
(* the service's thread to take its first message, the snapshot, to it.    *)
(* Each operator holds the service's lock once.  The services with a       *)
(* snapshot are modelled (need_snapshot: video, audio, clipboard and       *)
(* mouse_cursor; mouse_pos has none).                                      *)
(***************************************************************************)
CONSTANT Conn \* bound: the connections of the server

VARIABLES subscribes, newSubscribes

subs == <<subscribes, newSubscribes>>

NoSubscribers == subscribes = {} /\ newSubscribes = {}

\* Only who has had the snapshot counts as subscribed.
IsSubed(c) == c \in subscribes

HasSubscribes == subscribes # {} \/ newSubscribes # {}

OnSubscribe(c) ==
  /\ newSubscribes' = IF c \in subscribes THEN newSubscribes ELSE newSubscribes \cup {c}
  /\ UNCHANGED subscribes

OnUnsubscribe(c) ==
  /\ subscribes' = subscribes \ {c}
  /\ newSubscribes' = IF c \in subscribes THEN newSubscribes ELSE newSubscribes \ {c}

\* The ServiceSwap of a snapshot is dropped, whatever became of its callback.
SwapNewSubscribes ==
  /\ subscribes' = subscribes \cup newSubscribes
  /\ newSubscribes' = {}
=============================================================================
