------------------------------ MODULE FileCopy ------------------------------
(***************************************************************************)
(* What a transfer of files promises: a file under its own name is the old *)
(* one or the whole new one, the files are replaced one after the other,   *)
(* and the transfer is called done when all of them are.  A transfer may   *)
(* end before that: it was cancelled, or the connection is gone.           *)
(***************************************************************************)
EXTENDS Naturals

CONSTANT N  \* the number of files

VARIABLES
  replaced,  \* the files that are new: those before this one
  state      \* "running", "done" as the user was told, or "ended" early

copyVars == <<replaced, state>>

CopyInit == replaced = 0 /\ state = "running"

\* The next file takes its name.
Replace == replaced < N /\ replaced' = replaced + 1 /\ UNCHANGED state

\* The user is told, after the last file or with it.
Finish == state = "running" /\ replaced \in {N - 1, N} /\ replaced' = N /\ state' = "done"

\* A cancel, a refusal, or a lost connection: what is new stays.
End == state = "running" /\ state' = "ended" /\ UNCHANGED replaced

CopyNext == Replace \/ Finish \/ End

CopySpec == CopyInit /\ [][CopyNext]_copyVars
=============================================================================
