---------------------------- MODULE FramedStream ----------------------------
(***************************************************************************)
(* A TCP connection between two programs of the system (hbb_common, tcp.rs *)
(* and bytes_codec.rs), in one direction: the sender puts frames in a      *)
(* buffer, which the network takes in pieces of any size; the receiver     *)
(* cuts its own buffer into frames again.                                  *)
(*                                                                         *)
(* With a key each message is sealed with a number that both ends count    *)
(* for themselves.  After a number of frames the two ends may drop frames  *)
(* and key and pass bytes as they come: a port forward does, and the relay *)
(* server for both of its ends.                                            *)
(*                                                                         *)
(* The sender may have a time limit for a send.  A send that is given up   *)
(* may have put its frame in the buffer, from where it still goes out, or  *)
(* not, when the buffer was at its boundary: the counter has moved then.   *)
(* The senders of connection.rs that only log an error go on after it.     *)
(*                                                                         *)
(* The bytes of the messages are numbered, so that a length read from the  *)
(* wrong place is seen; the bytes that sealing adds are Mac of them.       *)
(***************************************************************************)
EXTENDS Integers, Sequences, SequencesExt, FiniteSetsExt

-----------------------------------------------------------------------------
\* The head of a frame: one to four bytes that hold the length of what follows, shifted
\* by two bits that say how many bytes the head has, least significant byte first.

Byte == 0..255
MaxLen == 1073741823  \* 0x3FFFFFFF, more is refused as an overflow

\* encode: how many bytes the head of a frame of n bytes has.
HeadLen(n) ==
  IF n <= 63 THEN 1 ELSE IF n <= 64 * 256 - 1 THEN 2 ELSE IF n <= 64 * 256 * 256 - 1 THEN 3 ELSE 4

\* The number the head holds; the shift leaves the two low bits free.
Tagged(n) == n * 4 + (HeadLen(n) - 1)

\* encode: put_u8, put_u16_le, put_u16_le and put_u8, put_u32_le, each cut to its width.
FrameHeadOf(n) ==
  LET v == Tagged(n)
  IN  CASE HeadLen(n) = 1 -> << v % 256 >>
        [] HeadLen(n) = 2 -> << v % 256, (v \div 256) % 256 >>
        [] HeadLen(n) = 3 -> << v % 256, (v \div 256) % 256, (v \div (256 * 256)) % 256 >>
        [] OTHER -> << v % 256, (v \div 256) % 256, (v \div (256 * 256)) % 256, (v \div (256 * 256 * 256)) % 256 >>

-----------------------------------------------------------------------------
\* decode_head: how many bytes the head has, by its first one.
HeadLenOf(src) == (src[1] % 4) + 1

\* decode_head: the length, of the first bytes of a buffer that has a whole head.
LengthOf(src) ==
  LET h == HeadLenOf(src)
  IN  (src[1] + (IF h > 1 THEN src[2] * 256 ELSE 0)
              + (IF h > 2 THEN src[3] * (256 * 256) ELSE 0)
              + (IF h > 3 THEN src[4] * (256 * 256 * 256) ELSE 0)) \div 4

-----------------------------------------------------------------------------
CONSTANTS
  Lens,      \* bound: the lengths of messages
  MaxMsgs,   \* bound: the messages sent
  Boundary,  \* bytes in the buffer from which a send waits for the network
  Keyed,     \* whether the messages are sealed
  Limited,   \* whether sends have a time limit, and errors are only logged
  RawAfter,  \* the frames after which both ends go raw
  Mac,       \* the bytes sealing adds
  None

StreamAssumption ==
  /\ Lens \subseteq 0..MaxLen /\ MaxMsgs \in Nat /\ Boundary \in Nat \ {0}
  /\ Keyed \in BOOLEAN /\ Limited \in BOOLEAN /\ RawAfter \in Nat
  /\ Mac \in Nat \ {0} /\ None \notin Nat

VARIABLES
  sent,     \* the messages put in the buffer: their lengths, and nonces
  wbuf,     \* the sender's buffer
  net,      \* what the network has taken
  rbuf,     \* the receiver's buffer
  raw,      \* which ends are raw
  state,    \* the receiver's DecodeState: None for Head, the length for Data
  readable, \* whether the receiver tries to decode before it reads
  count,    \* the numbers of the two ends
  got,      \* what the receiver got, item by item
  failed,   \* the receiver found a message it cannot open
  lost      \* messages that were given up before they were in the buffer

bytes == <<wbuf, net, rbuf>>
receiver == <<rbuf, state, readable, got, failed>>
vars == <<sent, wbuf, net, receiver, raw, count, lost>>

Init ==
  /\ sent = <<>> /\ wbuf = <<>> /\ net = <<>> /\ rbuf = <<>>
  /\ raw = [s |-> FALSE, r |-> FALSE]
  /\ state = None /\ readable = FALSE
  /\ count = [s |-> 0, r |-> 0]
  /\ got = <<>> /\ failed = FALSE /\ lost = 0

Sealed(end) == Keyed /\ ~raw[end]
\* The bytes of message i, no two of a short one the same.
BytesOf(i, n) == [j \in 1..n |-> ((i - 1) * 64 + j - 1) % 256]
Payload(i) == BytesOf(i, sent'[i].len)

-----------------------------------------------------------------------------
(* The sender.                                                             *)

\* A send without a time limit ends when the network has everything.
MaySend == /\ Len(sent) + lost < MaxMsgs
           /\ Len(sent) = RawAfter => raw.s
           /\ ~Limited => wbuf = <<>>

\* send, send_raw and send_bytes: a message is sealed and put in the buffer as a frame.
Send(n) ==
  /\ MaySend /\ Len(wbuf) < Boundary
  /\ count' = [count EXCEPT !.s = IF Sealed("s") THEN @ + 1 ELSE @]
  /\ sent' = Append(sent, [len |-> IF Sealed("s") THEN n + Mac ELSE n, nonce |-> count'.s])
  /\ LET p == Payload(Len(sent'))
     IN  wbuf' = wbuf \o (IF raw.s THEN p ELSE FrameHeadOf(Len(p)) \o p)
  /\ UNCHANGED <<net, receiver, raw, lost>>

\* send_bytes: the time is up while the buffer is at its boundary; the message has been
\* sealed but is dropped.
GivenUp ==
  /\ Limited /\ MaySend /\ Len(wbuf) >= Boundary
  /\ count' = [count EXCEPT !.s = IF Sealed("s") THEN @ + 1 ELSE @]
  /\ lost' = lost + 1
  /\ UNCHANGED <<sent, wbuf, net, receiver, raw>>

\* set_raw of the sender: no frames and no key from here on.
SenderRaw ==
  /\ Len(sent) = RawAfter /\ ~raw.s
  /\ raw' = [raw EXCEPT !.s = TRUE]
  /\ UNCHANGED <<sent, wbuf, net, receiver, count, lost>>

\* The network takes a piece.
Flush(k) ==
  /\ k <= Len(wbuf)
  /\ net' = net \o SubSeq(wbuf, 1, k)
  /\ wbuf' = SubSeq(wbuf, k + 1, Len(wbuf))
  /\ UNCHANGED <<sent, receiver, raw, count, lost>>

-----------------------------------------------------------------------------
(* The receiver.                                                           *)

\* set_raw of the receiver, before it asks for the next item.
Switch == Len(got) = RawAfter /\ ~raw.r

ReceiverRaw ==
  /\ Switch
  /\ raw' = [raw EXCEPT !.r = TRUE]
  /\ UNCHANGED <<sent, wbuf, net, receiver, count, lost>>

\* Framed: nothing more can be decoded, so it reads what there is.
Receive ==
  /\ ~readable /\ ~failed /\ ~Switch /\ net # <<>>
  /\ rbuf' = rbuf \o net
  /\ net' = <<>>
  /\ readable' = TRUE
  /\ UNCHANGED <<sent, wbuf, state, got, failed, raw, count, lost>>

\* decode_head: the buffer has a whole head.
HasHead == rbuf # <<>> /\ Len(rbuf) >= HeadLenOf(rbuf)

\* The length of the frame, and the buffer without its head.
Frame == IF state # None THEN [n |-> state, src |-> rbuf]
         ELSE [n |-> LengthOf(rbuf), src |-> SubSeq(rbuf, HeadLenOf(rbuf) + 1, Len(rbuf))]

Whole == \/ raw.r /\ rbuf # <<>>
         \/ ~raw.r /\ (state # None \/ HasHead) /\ Len(Frame.src) >= Frame.n

\* decode: not a whole frame; a head that is complete is taken off.
DecodeNothing ==
  /\ readable /\ ~failed /\ ~Switch /\ ~Whole
  /\ readable' = FALSE
  /\ IF ~raw.r /\ state = None /\ HasHead
       THEN state' = Frame.n /\ rbuf' = Frame.src
       ELSE UNCHANGED <<state, rbuf>>
  /\ UNCHANGED <<sent, wbuf, net, got, failed, raw, count, lost>>

\* secretbox::open: the bytes of a whole message, sealed with the number expected.
Opens(p, nonce) == \E i \in DOMAIN sent :
  /\ p = BytesOf(i, sent[i].len)
  /\ sent[i].nonce = nonce

\* Mutant of Item: a frame that was cut keeps its length.
Item_Keeps(p, rest, st) ==
  /\ rbuf' = rest /\ state' = st
  /\ IF Sealed("r")
       THEN /\ count' = [count EXCEPT !.r = @ + 1]
            /\ IF Opens(p, count'.r) THEN got' = Append(got, p) /\ UNCHANGED failed
                 ELSE failed' = TRUE /\ UNCHANGED got
       ELSE got' = Append(got, p) /\ UNCHANGED <<count, failed>>
  /\ UNCHANGED <<sent, wbuf, net, readable, raw, lost>>

\* next: an item is opened when there is a key, and the next one is looked for at once.
Item(p, rest, st) ==
  /\ rbuf' = rest /\ state' = None
  /\ IF Sealed("r")
       THEN /\ count' = [count EXCEPT !.r = @ + 1]
            /\ IF Opens(p, count'.r) THEN got' = Append(got, p) /\ UNCHANGED failed
                 ELSE failed' = TRUE /\ UNCHANGED got
       ELSE got' = Append(got, p) /\ UNCHANGED <<count, failed>>
  /\ UNCHANGED <<sent, wbuf, net, readable, raw, lost>>

\* decode: a frame, or when raw all there is.
Decode ==
  /\ readable /\ ~failed /\ ~Switch /\ Whole
  /\ IF raw.r THEN Item(rbuf, <<>>, state)
       ELSE Item(SubSeq(Frame.src, 1, Frame.n),
                 SubSeq(Frame.src, Frame.n + 1, Len(Frame.src)), Frame.n)

Next ==
  \/ \E n \in Lens : Send(n)
  \/ GivenUp \/ SenderRaw
  \/ \E k \in 1..Len(wbuf) : Flush(k)
  \/ ReceiverRaw \/ Receive \/ DecodeNothing \/ Decode

\* The network takes what there is, and the receiver asks for the next item.
Fairness ==
  /\ WF_vars(\E k \in 1..Len(wbuf) : Flush(k))
  /\ WF_vars(ReceiverRaw) /\ WF_vars(Receive) /\ WF_vars(DecodeNothing \/ Decode)
  /\ WF_vars(SenderRaw)

Spec == Init /\ [][Next]_vars /\ Fairness

-----------------------------------------------------------------------------
Message(i) == BytesOf(i, sent[i].len)
Messages(a, b) == FlattenSeq([i \in 1..(b - a + 1) |-> Message(a + i - 1)])

\* Every variable has its type.
TypeOK ==
  /\ \A i \in DOMAIN sent : sent[i].len \in Nat /\ sent[i].nonce \in 0..MaxMsgs
  /\ \A s \in {wbuf, net, rbuf} : \A i \in DOMAIN s : s[i] \in Byte
  /\ raw \in [{"s", "r"} -> BOOLEAN] /\ state \in Nat \cup {None}
  /\ readable \in BOOLEAN /\ failed \in BOOLEAN
  /\ count \in [{"s", "r"} -> 0..MaxMsgs] /\ lost \in 0..MaxMsgs

\* What arrives is what was sent: message by message while there are frames, whatever
\* pieces the network made of them, and byte by byte once both ends are raw, also when
\* the bytes came together with the last frame.
Faithful ==
  /\ \A i \in DOMAIN got : i <= RawAfter => i \in DOMAIN sent /\ got[i] = Message(i)
  /\ Len(got) > RawAfter =>
       IsPrefix(FlattenSeq(SubSeq(got, RawAfter + 1, Len(got))), Messages(RawAfter + 1, Len(sent)))

\* A message that cannot be opened follows a send that was given up before it was in the
\* buffer: pieces, lengths and the change to raw never make one.
FailsOnlyAfterLoss == failed => lost > 0

\* What was put in the buffer arrives, unless the receiver failed.
Arrives == \A i \in 1..MaxMsgs : (i \in DOMAIN sent) ~>
  (i \in DOMAIN sent /\ (failed \/ Len(FlattenSeq(got)) >= Len(Messages(1, i))))
=============================================================================
