------------------------------ MODULE LogRing -------------------------------
(* The live log ring (main/log_capture.c), the log page with its handlers  *)
(* (main/web_ui.c), and the ntfy task that takes the end of the log for an *)
(* alert. A byte is its number: the log is 1, 2, 3 and so on.              *)
EXTENDS Integers, Sequences

CONSTANTS
  Cap,        \* s_cap, the live ring
  MaxLine,    \* bytes of a line, LINE_SCRATCH_BYTES
  TailSize,   \* the buffer of log_capture_read's caller
  MaxSeq,     \* bound: bytes of a boot
  MaxBoots    \* bound: restarts

(* A line fits into the ring: MaxLine <= Cap.                              *)

VARIABLES
  live, seq,  \* s_buf, s_head, s_count: [buf, head, count]; s_seq
  page,       \* the log page's cursor
  reply,      \* log_raw_handler: [pc, since, data, new, lost]
  tail,       \* log_capture_read, in another task than httpd: [pc, want, out, seq]
  wiped,      \* history: s_seq when the ring was last cleared
  torn,       \* history: the ring was cleared under log_capture_read
  boots

readers == <<page, reply, tail, torn>>
vars == <<live, seq, readers, wiped, boots>>

Empty == [buf |-> [i \in 0..Cap - 1 |-> 0], head |-> 0, count |-> 0]
NoReply == [pc |-> "idle", since |-> 0, data |-> <<>>, new |-> 0, lost |-> FALSE]
Sent == [reply EXCEPT !.pc = "idle", !.lost = FALSE]
NoTail == [pc |-> "idle", want |-> 0, out |-> <<>>, seq |-> 0]

Init ==
  /\ live = Empty /\ seq = 0 /\ page = 0 /\ reply = NoReply /\ tail = NoTail
  /\ wiped = 0 /\ torn = FALSE /\ boots = 0

-----------------------------------------------------------------------------
Lower(m, n) == IF m <= n THEN m ELSE n

(* buffer_append, byte after byte: a line of k bytes takes the k places    *)
(* from the head on.                                                       *)
Stored(k) ==
  [buf |-> [p \in 0..Cap - 1 |-> LET d == (p + Cap - live.head) % Cap
                                 IN  IF d < k THEN seq + d + 1 ELSE live.buf[p]],
   head |-> (live.head + k) % Cap, count |-> Lower(live.count + k, Cap)]

(* log_vprintf_hook: a line, under s_lock.                                 *)
Log ==
  /\ \E k \in 1..MaxLine :
       seq + k <= MaxSeq /\ seq' = seq + k /\ live' = Stored(k)
  /\ UNCHANGED <<readers, wiped, boots>>

(* A restart; the page stays open.                                         *)
Reboot ==
  /\ boots < MaxBoots /\ boots' = boots + 1
  /\ live' = Empty /\ seq' = 0 /\ wiped' = 0
  /\ reply' = Sent /\ tail' = NoTail /\ torn' = FALSE /\ UNCHANGED page

(* Where n bytes that end at the head begin, and the copy in two chunks.   *)
Start(n) == (live.head + Cap - n) % Cap
From(start, n) == [i \in 1..n |-> live.buf[(start + i - 1) % Cap]]

(* log_capture_clear, in httpd.                                            *)
Clear ==
  /\ reply.pc = "idle" /\ live.count > 0
  /\ live' = [live EXCEPT !.head = 0, !.count = 0] /\ wiped' = seq
  /\ torn' = (torn \/ tail.pc = "copy")
  /\ UNCHANGED <<seq, page, reply, tail, boots>>

(* log_capture_read_since, under s_lock.                                   *)
Oldest == seq - live.count
Behind_Whole(since) == live.count
Behind(since) == seq - (IF since < Oldest THEN Oldest ELSE since)

Poll ==
  /\ reply.pc = "idle"
  /\ reply' = [pc |-> "size", since |-> page, new |-> seq, lost |-> FALSE,
               data |-> IF page >= seq THEN <<>> ELSE From(Start(Behind(page)), Behind(page))]
  /\ UNCHANGED <<live, seq, page, tail, torn, wiped, boots>>

(* The handler then takes the size again, without the lock, to tell        *)
(* whether the ring has wrapped past the cursor.                           *)
Lost(since, oldest) == since # 0 /\ since < oldest

Mark ==
  /\ reply.pc = "size"
  /\ LET oldest == IF reply.new > live.count THEN reply.new - live.count ELSE 0
     IN  reply' = [reply EXCEPT !.pc = "send", !.lost = Lost(reply.since, oldest)]
  /\ UNCHANGED <<live, seq, page, tail, torn, wiped, boots>>

Send ==
  /\ reply.pc = "send" /\ reply' = Sent
  /\ page' = reply.new \* the page, or it never gets the answer
     \/ page' = page
  /\ UNCHANGED <<live, seq, tail, torn, wiped, boots>>

(* A page that is opened, or whose user has cleared the log.               *)
OpenPage ==
  /\ page # 0 /\ page' = 0
  /\ UNCHANGED <<live, seq, reply, tail, torn, wiped, boots>>

(* log_capture_read, of the ntfy task: how much there is, without the lock *)
(* and then the copy, with it.                                             *)
TailSized ==
  /\ tail.pc = "idle" /\ live.count > 0
  /\ tail' = [pc |-> "copy", want |-> Lower(live.count, TailSize), out |-> <<>>, seq |-> 0]
  /\ torn' = FALSE /\ UNCHANGED <<live, seq, page, reply, wiped, boots>>

TailStart_Oldest(want) == Start(live.count)
TailStart(want) ==
  LET start == Start(live.count)
  IN  IF want < live.count THEN (start + live.count - want) % Cap ELSE start

TailCopy ==
  /\ tail.pc = "copy"
  /\ tail' = [NoTail EXCEPT !.out = From(TailStart(tail.want), tail.want), !.seq = seq]
  /\ UNCHANGED <<live, seq, page, reply, torn, wiped, boots>>

Next ==
  \/ Log \/ Reboot \/ Clear \/ Poll \/ Mark \/ Send \/ OpenPage
  \/ TailSized \/ TailCopy

Spec == Init /\ [][Next]_vars

-----------------------------------------------------------------------------
(* The ring gives the page what a log with a window of Cap bytes would:    *)
(* all that the page has not seen and that is still kept, in order,        *)
(* wherever the ring has wrapped and whenever it was cleared.              *)
Window == INSTANCE LogWindow WITH
  base <- Oldest, answer <- [since |-> reply.since, data |-> reply.data]
ServesTheWindow == Window!Spec

(* ""lost":true means the ring wrapped past the caller's cursor"           *)
(* (web_ui.c:2780): the size that is read a second time has grown perhaps, *)
(* but a wrap is never missed, and no gap is told where there is none.     *)
GapsMarked ==
  reply.pc = "send" =>
    LET next == IF reply.data = <<>> THEN reply.new + 1 ELSE reply.data[1]
    IN  /\ reply.lost => reply.since + 1 < next
        /\ reply.since # 0 /\ reply.since + 1 < next /\ wiped + 1 < next => reply.lost

(* The tail of the log in an alert is what was logged last, in order,      *)
(* unless the log was cleared in between.                                  *)
TailInOrder ==
  tail.out # <<>> /\ ~torn =>
    LET n == Len(tail.out)
    IN  n <= tail.seq /\ \A i \in 1..n : tail.out[i] = tail.seq - n + i

(* What readers of the ring are told is true of the log: where a page has *)
(* a gap, and what the tail in an alert is the end of.                    *)
ReadersToldTruly == GapsMarked /\ TailInOrder
=============================================================================
