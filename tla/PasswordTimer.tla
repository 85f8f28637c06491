--------------------------- MODULE PasswordTimer ---------------------------
(***************************************************************************)
(* The change of the password by the clock (the thread of --service in     *)
(* main.rs): every minute the service asks the server how often the user   *)
(* wants a new password, counts, and sends one when the time has come.     *)
(* Without a server it goes by its own copy of the answer and keeps the    *)
(* password in the file it shares with the server, which reads that file   *)
(* when it starts and a moment later listens.                              *)
(*                                                                         *)
(* Passwords are numbered; the server's is old when its number is lower.   *)
(***************************************************************************)
EXTENDS Naturals

CONSTANTS
  Period,      \* the minutes between two passwords, of the settings "2" to "7"
  Off,         \* the settings "0" and "1"
  Other,       \* a text that is no setting
  MaxPassword  \* bound: passwords made

PasswordTimerAssumption ==
  Period \subseteq Nat \ {0} /\ {Off, Other} \cap Period = {} /\ Off # Other /\ MaxPassword \in Nat

Setting == Period \cup {Off, Other}

VARIABLES
  setting,  \* pwdupd of the server
  copy,     \* pwdupd of the service
  cntr,     \* minutes counted
  server,   \* "off", "read" (it has its file, and does not listen yet), "up"
  file,     \* the password in the file
  password, \* the password of the server
  since,    \* history: minutes since the last new password or the last change of the setting
  mixed,    \* history: the setting was changed while minutes were counted
  late      \* history: a password was sent to a server that did not listen yet

vars == <<setting, copy, cntr, server, file, password, since, mixed, late>>

Init ==
  /\ setting \in Setting /\ copy \in Setting
  /\ cntr = 0
  /\ server = "off" /\ file = 0 /\ password = 0
  /\ since = 0 /\ mixed = FALSE /\ late = FALSE

-----------------------------------------------------------------------------
(* ipc::get_pwdupd: the server's answer is kept. *)
Known == IF server = "up" THEN setting ELSE copy

Mixed == mixed \/ (Known # copy /\ copy # Off /\ cntr > 0)

\* The same setting goes on as far as the service can know.
Since == IF Known = setting THEN since + 1 ELSE 0

MinuteOff ==
  /\ Known = Off
  /\ cntr' = 0 /\ copy' = Known
  /\ since' = 0 /\ mixed' = FALSE
  /\ UNCHANGED <<setting, server, file, password, late>>

\* A text that is no setting keeps the count.
MinuteOther ==
  /\ Known = Other
  /\ copy' = Known
  /\ since' = 0 /\ mixed' = Mixed
  /\ UNCHANGED <<setting, cntr, server, file, password, late>>

MinuteCounts ==
  /\ Known \in Period /\ cntr + 1 < Known
  /\ cntr' = cntr + 1 /\ copy' = Known
  /\ since' = Since /\ mixed' = Mixed
  /\ UNCHANGED <<setting, server, file, password, late>>

\* ipc::set_password: the own file, then the server.
Keep(n) ==
  /\ n <= MaxPassword
  /\ file' = n
  /\ password' = IF server = "up" THEN n ELSE password
  /\ late' = (late \/ server = "read")

MinuteChanges ==
  /\ Known \in Period /\ cntr + 1 >= Known
  /\ cntr' = 0 /\ copy' = Known
  /\ Keep(file + 1)
  /\ since' = 0 /\ mixed' = FALSE
  /\ UNCHANGED <<setting, server>>

Minute == MinuteOff \/ MinuteOther \/ MinuteCounts \/ MinuteChanges

\* The user changes the setting through the server.
Set(s) ==
  /\ server = "up" /\ s # setting
  /\ setting' = s
  /\ since' = 0 /\ mixed' = (mixed \/ ((setting # Off \/ copy # Off) /\ cntr > 0))
  /\ UNCHANGED <<copy, cntr, server, file, password, late>>

Start ==
  /\ server = "off"
  /\ server' = "read" /\ password' = file
  /\ UNCHANGED <<setting, copy, cntr, file, since, mixed, late>>

Listen ==
  /\ server = "read"
  /\ server' = "up"
  /\ UNCHANGED <<setting, copy, cntr, file, password, since, mixed, late>>

Stop ==
  /\ server # "off"
  /\ server' = "off"
  /\ UNCHANGED <<setting, copy, cntr, file, password, since, mixed, late>>

Next == Minute \/ (\E s \in Setting : Set(s)) \/ Start \/ Listen \/ Stop

Spec == Init /\ [][Next]_vars

-----------------------------------------------------------------------------
TypeOK ==
  /\ setting \in Setting /\ copy \in Setting
  /\ cntr \in Nat /\ (cntr > 0 => \E n \in Period : cntr < n)
  /\ server \in {"off", "read", "up"}
  /\ file \in 0 .. MaxPassword /\ password \in 0 .. file
  /\ since \in Nat /\ mixed \in BOOLEAN /\ late \in BOOLEAN

\* A password is never older than the setting says, as far as the service can know.
InTime == setting \in Period => since < setting

\* It is not changed before its time - unless the setting was changed on the way: the
\* minutes counted under the old one are counted for the new one.
Changes == file' # file
NotBefore == [][Changes => since + 1 >= Known \/ Mixed \/ Known # setting]_vars

\* A server that runs has the last password made - unless it was made between the
\* moment the server read its file and the moment it listened.
ServerHasIt == server # "off" => password = file \/ late
=============================================================================
