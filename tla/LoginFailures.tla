--------------------------- MODULE LoginFailures ---------------------------
(***************************************************************************)
(* LOGIN_FAILURES (connection.rs): how often a wrong password came from an *)
(* address, in the last minute it did and in all.  The connections of that *)
(* address run on several threads; each reads the record under the lock,   *)
(* lets it go, decides, and writes its own copy back under the lock again. *)
(*                                                                         *)
(* One address; the clock counts minutes.  Left out: the other errors of a *)
(* login, what follows a right password (Session).                         *)
(***************************************************************************)
EXTENDS Naturals, FiniteSets

CONSTANTS
  Guest,       \* bound: the connections of the address
  MaxMinute,  \* 6: so many failures in a minute do not yet stop it
  MaxTotal,   \* 30: so many failures in all do not yet stop it
  MaxTime,    \* bound: the minutes
  MaxWrong    \* bound: the wrong passwords that are compared

ASSUME FailuresAssumption ==
  /\ MaxMinute \in Nat /\ MaxTotal \in Nat /\ MaxTime \in Nat \ {0} /\ MaxWrong \in Nat

VARIABLES
  now,       \* the minute
  failures,  \* the record: its minute, the failures of it, the failures in all
  copy,      \* what a connection has read, and when; or None
  wrong,     \* history: the wrong passwords since the record was last removed
  inMinute,  \* history: those of this minute
  overlaps   \* history: decisions on a record that was no longer the one read

loginVars == <<now, failures, copy, wrong, inMinute, overlaps>>

NoRecord == [min |-> 0, cnt |-> 0, tot |-> 0]
NoCopy == [time |-> 0, rec |-> NoRecord]

LoginInit ==
  /\ now = 1 /\ failures = NoRecord
  /\ copy = [c \in Guest |-> NoCopy]
  /\ wrong = 0 /\ inMinute = 0 /\ overlaps = 0

Checking(c) == copy[c] # NoCopy

\* A login request with a password: the record is read.
Read(c) ==
  /\ ~Checking(c)
  /\ copy' = [copy EXCEPT ![c] = [time |-> now, rec |-> failures]]
  /\ UNCHANGED <<now, failures, wrong, inMinute, overlaps>>

TooMany(r) == r.tot > MaxTotal

Later(r, t) == r.min = t /\ r.cnt > MaxMinute

\* Too many, in all or in this minute: the password is not looked at.
RefuseLogin(c) ==
  /\ Checking(c) /\ (TooMany(copy[c].rec) \/ Later(copy[c].rec, copy[c].time))
  /\ copy' = [copy EXCEPT ![c] = NoCopy]
  /\ UNCHANGED <<now, failures, wrong, inMinute, overlaps>>

Compares(c) == Checking(c) /\ ~TooMany(copy[c].rec) /\ ~Later(copy[c].rec, copy[c].time)

\* Mutant of Counted: a new minute starts a new record.
Counted_Fresh(r, t) ==
  IF r.min = t THEN [r EXCEPT !.cnt = @ + 1, !.tot = @ + 1]
               ELSE [min |-> t, cnt |-> 1, tot |-> 1]

Counted(r, t) ==
  IF r.min = t THEN [r EXCEPT !.cnt = @ + 1, !.tot = @ + 1]
               ELSE [min |-> t, cnt |-> 1, tot |-> r.tot + 1]

Overlaps(c) == IF copy[c].rec # failures THEN overlaps + 1 ELSE overlaps

\* A wrong password: the copy, counted, replaces whatever the record is by now.
Wrong(c) ==
  /\ Compares(c) /\ wrong < MaxWrong
  /\ failures' = Counted(copy[c].rec, copy[c].time)
  /\ wrong' = wrong + 1
  /\ inMinute' = IF copy[c].time = now THEN inMinute + 1 ELSE inMinute
  /\ overlaps' = Overlaps(c)
  /\ copy' = [copy EXCEPT ![c] = NoCopy]
  /\ UNCHANGED now

\* Mutant of Right: the right password is let in, and the record goes, also when there were
\* too many in all.
Right_Reset(c) ==
  /\ Checking(c) /\ ~Later(copy[c].rec, copy[c].time)
  /\ failures' = NoRecord /\ wrong' = 0 /\ inMinute' = 0
  /\ overlaps' = 0
  /\ copy' = [copy EXCEPT ![c] = NoCopy]
  /\ UNCHANGED now

\* The right one: the record goes, if there was one.
Right(c) ==
  /\ Compares(c)
  /\ IF copy[c].rec.min # 0
       THEN failures' = NoRecord /\ wrong' = 0 /\ inMinute' = 0 /\ overlaps' = 0
       ELSE UNCHANGED <<failures, wrong, inMinute, overlaps>>
  /\ copy' = [copy EXCEPT ![c] = NoCopy]
  /\ UNCHANGED now

Minute ==
  /\ now < MaxTime /\ now' = now + 1 /\ inMinute' = 0
  /\ UNCHANGED <<failures, copy, wrong, overlaps>>

LoginNext == Minute \/ \E c \in Guest : Read(c) \/ RefuseLogin(c) \/ Wrong(c) \/ Right(c)

LoginSpec == LoginInit /\ [][LoginNext]_loginVars

-----------------------------------------------------------------------------
\* Every variable keeps its type; the failures of a minute are among those in all.
LoginTypeOK ==
  /\ now \in 1 .. MaxTime /\ wrong \in 0 .. MaxWrong /\ inMinute \in 0 .. MaxWrong
  /\ failures \in [min : 0 .. MaxTime, cnt : Nat, tot : Nat]
  /\ failures.cnt <= failures.tot /\ failures.cnt <= MaxMinute + 1
  /\ failures.tot <= MaxTotal + 1
  /\ \A c \in Guest : copy[c].time \in 0 .. now

\* As long as no connection wrote what another had changed since it read, every wrong
\* password is on the record, and only those (LOGIN_FAILURES, read and written under two locks).
CountedUnlessOverlapped == overlaps = 0 => failures.tot = wrong

\* Then no minute compares more wrong passwords than its limit and the one that reaches it.
MinuteIsBounded == overlaps = 0 => inMinute <= MaxMinute + 1

\* What holds of the record in every state.
LoginsHold == LoginTypeOK /\ CountedUnlessOverlapped /\ MinuteIsBounded

\* Once there were too many in all, the record stays: no password is compared any more,
\* unless a connection had read it before (failure.2 > 30).
LockIsForGood ==
  [][TooMany(failures) /\ (\A c \in Guest : Checking(c) => TooMany(copy[c].rec))
       => failures' = failures]_loginVars

-----------------------------------------------------------------------------
\* Why they hold: what a connection has read is of its own time, and as long as no decision
\* was made on a record that had changed, the count of the present minute is the record's.
Record == {r \in [min : 0 .. MaxTime, cnt : 0 .. MaxMinute + 1, tot : 0 .. MaxTotal + 1] : r.cnt <= r.tot}

InMinuteIsCounted ==
  overlaps = 0 => inMinute = (IF failures.min = now THEN failures.cnt ELSE 0)

LoginInv ==
  /\ now \in 1 .. MaxTime /\ failures \in Record /\ failures.min <= now
  /\ copy \in [Guest -> [time : 0 .. MaxTime, rec : Record]]
  /\ \A c \in Guest : copy[c].rec.min <= copy[c].time /\ copy[c].time <= now
  /\ wrong \in 0 .. MaxWrong /\ inMinute \in Nat /\ inMinute <= wrong /\ overlaps \in Nat
  /\ CountedUnlessOverlapped /\ InMinuteIsCounted

\* No one is compared any more.
Locked == TooMany(failures) /\ \A c \in Guest : Checking(c) => TooMany(copy[c].rec)
=============================================================================
