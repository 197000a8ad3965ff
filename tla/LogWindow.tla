----------------------------- MODULE LogWindow ------------------------------
(* What the log page relies on: a log that only grows, of which the newest *)
(* Cap bytes since it was last cleared are kept, and answers that give a   *)
(* reader all that it has not seen and that is still kept, in order. A     *)
(* byte is its number.                                                     *)
EXTENDS Naturals

CONSTANTS Cap, MaxSeq

VARIABLES
  seq,    \* bytes appended since boot
  base,   \* the last byte that is no longer kept
  answer  \* the last answer: [since, data]

vars == <<seq, base, answer>>

Later(m, n) == IF m >= n THEN m ELSE n
From(since) == [since |-> since,
                data |-> LET b == Later(since, base)
                         IN  [i \in 1 .. (IF b < seq THEN seq - b ELSE 0) |-> b + i]]

Init == seq = 0 /\ base = 0 /\ answer = [since |-> 0, data |-> <<>>]

Append(n) ==
  /\ seq' = seq + n /\ base' = (IF seq + n > Cap THEN Later(base, seq + n - Cap) ELSE base)
  /\ UNCHANGED answer

Clear == base' = seq /\ UNCHANGED <<seq, answer>>
Read(since) == answer' = From(since) /\ UNCHANGED <<seq, base>>
Boot == seq' = 0 /\ base' = 0 /\ UNCHANGED answer

Next ==
  \/ Clear \/ Boot \/ \E n \in 1..Cap : Append(n)
  \/ \E since \in 0..MaxSeq : Read(since)

Spec == Init /\ [][Next]_vars
=============================================================================
