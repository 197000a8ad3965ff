----------------------------- MODULE CrashRing -----------------------------
(* The log that outlives a crash (main/log_capture.c): the ring in RTC     *)
(* memory into which tasks copy each line and the panic handler its text,  *)
(* and what the next boot makes of it. A byte is its number.               *)
EXTENDS Integers, Sequences

CONSTANTS
  Tasks,      \* that log
  RtcCap,     \* PRECRASH_RING_BYTES
  MaxLine,    \* bytes of a line, LINE_SCRATCH_BYTES
  MaxSeq,     \* bound: bytes of a boot
  MaxBoots    \* bound: restarts

(* A line fits into the ring: MaxLine <= RtcCap.                           *)

VARIABLES
  rtc,        \* s_precrash: [magic, buf, head, count]
  line,       \* by task: the bytes that are still to be copied
  holder,     \* who holds s_precrash_lock
  panic,      \* the panic handler runs; every task has stopped
  snapshot,   \* s_snapshot: [valid, bytes]
  seq,        \* history: bytes logged in this boot
  said, before,  \* history: the bytes copied in this boot, and in the last
  boots

vars == <<rtc, line, holder, panic, snapshot, seq, said, before, boots>>

Nobody == "nobody"
Sealed == [magic |-> TRUE, buf |-> [i \in 0..RtcCap - 1 |-> 0], head |-> 0, count |-> 0]
NoSnapshot == [valid |-> FALSE, bytes |-> <<>>]

Init ==
  /\ rtc = Sealed /\ line = [t \in Tasks |-> <<>>] /\ holder = Nobody
  /\ panic = FALSE /\ snapshot = NoSnapshot /\ seq = 0 /\ said = <<>> /\ before = <<>> /\ boots = 0

-----------------------------------------------------------------------------
Lower(m, n) == IF m <= n THEN m ELSE n
Put(r, b) == [r EXCEPT !.buf[r.head] = b, !.head = (r.head + 1) % RtcCap,
                       !.count = Lower(@ + 1, RtcCap)]
Numbers(k) == [i \in 1..k |-> seq + i]

(* log_vprintf_hook: the line is in the live ring, and on its way to RTC.  *)
Log(t) ==
  /\ ~panic /\ line[t] = <<>>
  /\ \E k \in 1..MaxLine :
       /\ seq + k <= MaxSeq /\ seq' = seq + k
       /\ line' = [line EXCEPT ![t] = Numbers(k)]
  /\ UNCHANGED <<rtc, holder, panic, snapshot, said, before, boots>>

Lock(t) ==
  /\ holder = Nobody /\ line[t] # <<>> /\ holder' = t
  /\ UNCHANGED <<rtc, line, panic, snapshot, seq, said, before, boots>>

(* A byte of the loop under s_precrash_lock.                               *)
Copied(t) ==
  /\ holder = t /\ rtc' = Put(rtc, Head(line[t])) /\ said' = Append(said, Head(line[t]))
  /\ line' = [line EXCEPT ![t] = Tail(@)]
  /\ holder' = IF Len(line[t]) = 1 THEN Nobody ELSE t
  /\ UNCHANGED <<panic, snapshot, seq, before, boots>>

(* A crash stops every task where it stands, in the loop perhaps: with the *)
(* byte stored, or the head moved too and the count not yet.               *)
Cut(how) ==
  IF holder = Nobody \/ how = "none" THEN [ring |-> rtc, said |-> said]
  ELSE LET b == Head(line[holder])
           stored == [rtc EXCEPT !.buf[rtc.head] = b]
       IN  IF how = "stored" THEN [ring |-> stored, said |-> said]
           ELSE [ring |-> [stored EXCEPT !.head = (@ + 1) % RtcCap], said |-> Append(said, b)]

Panic ==
  /\ ~panic /\ boots < MaxBoots /\ panic' = TRUE
  /\ \E how \in {"none", "stored", "moved"} : rtc' = Cut(how).ring /\ said' = Cut(how).said
  /\ line' = [t \in Tasks |-> <<>>] /\ holder' = Nobody
  /\ UNCHANGED <<snapshot, seq, before, boots>>

(* log_capture_append_panic: a byte of the panic handler's text, without   *)
(* the lock.                                                               *)
PanicByte ==
  /\ panic /\ seq < MaxSeq /\ seq' = seq + 1
  /\ rtc' = [Put(rtc, seq') EXCEPT !.magic = TRUE] /\ said' = Append(said, seq')
  /\ UNCHANGED <<line, holder, panic, snapshot, before, boots>>

Start_Zero(ring) == 0
Start(ring) == (ring.head + RtcCap - ring.count) % RtcCap

(* log_capture_init: the copy, when the ring is sound and memory is left,  *)
(* and a new ring for this boot.                                           *)
Copies(ring) ==
  IF ring.magic /\ ring.count > 0
  THEN {NoSnapshot,
        [valid |-> TRUE,
         bytes |-> [i \in 1..ring.count |-> ring.buf[(Start(ring) + i - 1) % RtcCap]]]}
  ELSE {NoSnapshot}
Fresh == [rtc EXCEPT !.magic = TRUE, !.head = 0, !.count = 0]

Reboot(ring, text) ==
  /\ boots < MaxBoots /\ boots' = boots + 1
  /\ snapshot' \in Copies(ring) /\ before' = text /\ said' = <<>> /\ seq' = 0
  /\ rtc' = [Fresh EXCEPT !.buf = ring.buf]
  /\ line' = [t \in Tasks |-> <<>>] /\ holder' = Nobody /\ panic' = FALSE

(* A reset after the panic handler's text, which may be empty.             *)
Restart == panic /\ Reboot(rtc, said)

(* RTC memory that was without power has not the magic number.             *)
PowerLoss == Reboot([rtc EXCEPT !.magic = FALSE], <<>>)

ClearSnapshot ==
  /\ ~panic /\ snapshot.valid /\ snapshot' = NoSnapshot
  /\ UNCHANGED <<rtc, line, holder, panic, seq, said, before, boots>>

Next ==
  \/ \E t \in Tasks : Log(t) \/ Lock(t) \/ Copied(t)
  \/ Panic \/ PanicByte \/ Restart \/ PowerLoss \/ ClearSnapshot

Spec == Init /\ [][Next]_vars

-----------------------------------------------------------------------------
(* "the last few KB of log lines before a PANIC are readable on the next   *)
(* boot": the copy ends with the last byte logged and goes back without a  *)
(* gap as far as the ring reaches; only its first byte may be one that was *)
(* being stored, or be missing.                                            *)
SnapshotIsTheEnd ==
  LET s == snapshot.bytes n == Len(s) b == Len(before)
  IN  snapshot.valid =>
        /\ n >= Lower(b, RtcCap) - 1 /\ n <= b
        /\ \A i \in 2..n : s[i] = before[b - n + i]
=============================================================================
