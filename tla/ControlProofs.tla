---------------------------- MODULE ControlProofs ----------------------------
(* Proofs about what MCControl composes, for all values of the constants:  *)
(* the password and its cache, which are those of WebPassword, and the     *)
(* sessions, settings, routes and rings that are its instances.            *)
EXTENDS MCControl, Integers, SequenceTheorems, WellFoundedInduction, TLAPS

Records == [kind : {"none", "legacy", "proof"}, pw : Passwords \cup {"none"}]
Pcs == {"idle", "match", "read", "derive", "invalidate", "write", "seed", "done"}
Calls == [pc : Pcs, pw : Passwords \cup {"none"}, seen : Records, answer : BOOLEAN]

TypeInv ==
  /\ record \in Records /\ cache \in Passwords \cup {"none"}
  /\ call \in [Tasks -> Calls]

(* What a call knows of the record and of the cache, wherever it is.       *)
Sound(c, rec, fast) ==
  /\ c.pc = "match" => c.pw \in Passwords
  /\ c.pc = "derive" => c.seen = rec
  /\ c.pc = "write" => fast = "none"
  /\ c.pc = "seed" => c.pw = rec.pw
  /\ c.pc # "idle" /\ c.answer => c.pw = rec.pw

Alone == \A t, u \in Tasks : call[t].pc # "idle" /\ call[u].pc # "idle" => t = u

AloneInv ==
  /\ Alone /\ record.pw = set /\ cache \in {"none", record.pw}
  /\ \A t \in Tasks : Sound(call[t], record, cache)

Inv == TypeInv /\ (~overlapped => AloneInv)

-----------------------------------------------------------------------------
(* A task that is in no call knows nothing that could be wrong.            *)
LEMMA IdleCall == Idle \in Calls /\ \A rec, fast : Sound(Idle, rec, fast)
<1>1. NoPassword \in Records
  BY DEF NoPassword, Records
<1>2. Idle \in Calls
  BY <1>1 DEF Idle, Call, Calls, Pcs
<1>3. Idle.pc = "idle"
  BY DEF Idle, Call
<1> QED
  BY <1>2, <1>3 DEF Sound

LEMMA InvInit == Init => Inv
<1> SUFFICES ASSUME Init PROVE Inv
  OBVIOUS
<1>1. record \in Records
  BY DEF Init, Records, NoPassword
<1>2. \A t \in Tasks : call[t] = Idle /\ call[t].pc = "idle"
  BY DEF Init, Idle, Call
<1>3. TypeInv
  BY <1>1, IdleCall DEF Init, TypeInv
<1>4. AloneInv
  BY <1>2, IdleCall DEF Init, AloneInv, Alone
<1> QED
  BY <1>3, <1>4 DEF Inv

-----------------------------------------------------------------------------
(* A call goes on: the types stay.                                         *)
LEMMA GotoStep ==
  ASSUME NEW t \in Tasks, NEW pc \in Pcs, NEW seen \in Records, NEW a \in BOOLEAN,
         TypeInv, Goto(t, pc, seen, a),
         record' \in Records, cache' \in Passwords \cup {"none"}
  PROVE  TypeInv'
<1>1. call[t].pw \in Passwords \cup {"none"}
  BY DEF TypeInv, Calls
<1>2. Call(pc, call[t].pw, seen, a) \in Calls
  BY <1>1 DEF Call, Calls
<1> QED
  BY <1>2 DEF TypeInv, Goto

(* Alone, the call that goes on is the only one: the others are idle, and  *)
(* the invariant is what this call knows and what the cache holds.         *)
LEMMA AloneStep ==
  ASSUME NEW t \in Tasks, NEW next, TypeInv, AloneInv,
         call' = [call EXCEPT ![t] = next], call[t].pc # "idle",
         record'.pw = set', cache' \in {"none", record'.pw},
         Sound(next, record', cache')
  PROVE  AloneInv'
<1>1. call'[t] = next /\ \A u \in Tasks : u # t => call'[u] = call[u]
  BY DEF TypeInv
<1>2. \A u \in Tasks : u # t => call[u].pc = "idle"
  BY DEF AloneInv, Alone
<1>3. \A u \in Tasks : u # t => Sound(call[u], record', cache')
  BY <1>2 DEF Sound
<1>4. \A u \in Tasks : Sound(call'[u], record', cache')
  BY <1>1, <1>3
<1>5. Alone'
  BY <1>1, <1>2 DEF Alone
<1> QED
  BY <1>4, <1>5 DEF AloneInv

(* The fields of a call.                                                   *)
LEMMA CallFields ==
  ASSUME NEW pc, NEW pw, NEW seen, NEW a
  PROVE  /\ Call(pc, pw, seen, a).pc = pc /\ Call(pc, pw, seen, a).pw = pw
         /\ Call(pc, pw, seen, a).seen = seen /\ Call(pc, pw, seen, a).answer = a
  BY DEF Call

LEMMA BeginStep ==
  ASSUME NEW t \in Tasks, NEW pc \in {"match", "invalidate"},
         NEW pw \in Passwords \cup {"none"},
         pc = "match" => pw \in Passwords, Inv, Begin(t, pc, pw)
  PROVE  Inv'
<1> DEFINE next == Call(pc, pw, NoPassword, FALSE)
<1>1. next.pc = pc /\ next.pw = pw /\ next.answer = FALSE
  BY DEF Call
<1>2. NoPassword \in Records /\ pc \in Pcs
  BY DEF NoPassword, Records, Pcs
<1>3. next \in Calls
  BY <1>2 DEF Calls, Call
<1>4. \A rec, fast : Sound(next, rec, fast)
  BY <1>1 DEF Sound
<1>5. call' = [call EXCEPT ![t] = next] /\ record' = record /\ cache' = cache /\ set' = set
  BY DEF Begin
<1> HIDE DEF next
<1>6. TypeInv'
  BY <1>3, <1>5 DEF Inv, TypeInv
<1>7. ASSUME ~overlapped' PROVE AloneInv'
  <2>1. ~overlapped /\ \A u \in Tasks : u # t => call[u].pc = "idle"
    BY <1>7 DEF Begin, Busy
  <2>2. AloneInv /\ call'[t] = next /\ \A u \in Tasks : u # t => call'[u] = call[u]
    BY <2>1, <1>5 DEF Inv, TypeInv
  <2>3. Alone'
    BY <2>1, <2>2 DEF Alone
  <2>4. \A u \in Tasks : Sound(call'[u], record', cache')
    BY <2>2, <1>4, <1>5 DEF AloneInv
  <2> QED
    BY <2>2, <2>3, <2>4, <1>5 DEF AloneInv
<1> QED
  BY <1>6, <1>7 DEF Inv

-----------------------------------------------------------------------------
(* A call goes on: the record, the cache and what the call then knows are  *)
(* all there is to show.                                                   *)
LEMMA MoveStep ==
  ASSUME NEW t \in Tasks, NEW pc \in Pcs, NEW seen \in Records, NEW a \in BOOLEAN,
         Inv, Goto(t, pc, seen, a), call[t].pc # "idle",
         record' \in Records, cache' \in Passwords \cup {"none"},
         ~overlapped /\ AloneInv
           => /\ record'.pw = set' /\ cache' \in {"none", record'.pw}
              /\ pc \in {"match", "idle"} => FALSE
              /\ pc = "derive" => seen = record'
              /\ pc = "write" => cache' = "none"
              /\ pc = "seed" => call[t].pw = record'.pw
              /\ a => call[t].pw = record'.pw
  PROVE  Inv'
<1> DEFINE next == Call(pc, call[t].pw, seen, a)
<1>1. next.pc = pc /\ next.pw = call[t].pw /\ next.seen = seen /\ next.answer = a
  BY DEF Call
<1>2. call' = [call EXCEPT ![t] = next] /\ overlapped' = overlapped
  BY DEF Goto
<1> HIDE DEF next
<1>3. TypeInv'
  BY GotoStep DEF Inv
<1>4. ASSUME ~overlapped PROVE AloneInv'
  <2>1. AloneInv /\ TypeInv
    BY <1>4 DEF Inv
  <2>2. Sound(next, record', cache')
    BY <1>1, <1>4, <2>1 DEF Sound
  <2> QED
    BY <1>2, <1>4, <2>1, <2>2, AloneStep
<1> QED
  BY <1>2, <1>3, <1>4 DEF Inv

(* What the invariant says of the call that goes on.                       *)
LEMMA CallTyped ==
  ASSUME NEW t \in Tasks, Inv
  PROVE  /\ record \in Records /\ cache \in Passwords \cup {"none"}
         /\ call[t].seen \in Records /\ call[t].pw \in Passwords \cup {"none"}
         /\ call[t].answer \in BOOLEAN
         /\ AloneInv => Sound(call[t], record, cache)
  BY DEF Inv, TypeInv, Calls, AloneInv

(* verify_web_password, up to its answer.                                  *)
LEMMA MatchStep ==
  ASSUME NEW t \in Tasks, "none" \notin Passwords, Inv, Match(t)
  PROVE  Inv'
<1>1. call[t].pc = "match" /\ UNCHANGED <<record, cache, set>>
  BY DEF Match
<1>2. AloneInv => call[t].pw \in Passwords /\ record.pw = set /\ cache \in {"none", record.pw}
  BY <1>1, CallTyped DEF AloneInv, Sound
<1>3. CASE cache = call[t].pw /\ Goto(t, "done", call[t].seen, TRUE)
  BY <1>1, <1>2, <1>3, CallTyped, MoveStep DEF Pcs
<1>4. CASE cache # call[t].pw /\ Goto(t, "read", call[t].seen, FALSE)
  BY <1>1, <1>2, <1>4, CallTyped, MoveStep DEF Pcs
<1> QED
  BY <1>3, <1>4 DEF Match

LEMMA ReadStep ==
  ASSUME NEW t \in Tasks, Inv, Read(t)
  PROVE  Inv'
<1>1. call[t].pc = "read" /\ UNCHANGED <<record, cache, set>> /\ Goto(t, "derive", record, FALSE)
  BY DEF Read
<1>2. AloneInv => record.pw = set /\ cache \in {"none", record.pw}
  BY DEF AloneInv
<1> QED
  BY <1>1, <1>2, CallTyped, MoveStep DEF Pcs

LEMMA DeriveStep ==
  ASSUME NEW t \in Tasks, Inv, Derive(t)
  PROVE  Inv'
<1> DEFINE seen == call[t].seen
<1>1. call[t].pc = "derive" /\ UNCHANGED <<record, cache, set>>
  BY DEF Derive
<1>2. AloneInv => seen = record /\ record.pw = set /\ cache \in {"none", record.pw}
  BY <1>1, CallTyped DEF AloneInv, Sound
<1>3. CASE Goto(t, "done", seen, FALSE)
  BY <1>1, <1>2, <1>3, CallTyped, MoveStep DEF Pcs
<1>4. ASSUME seen.pw = call[t].pw,
             NEW pc \in {"seed", "invalidate"}, Goto(t, pc, seen, TRUE)
      PROVE  Inv'
  BY <1>1, <1>2, <1>4, CallTyped, MoveStep DEF Pcs
<1> QED
  BY <1>3, <1>4 DEF Derive, Agrees

-----------------------------------------------------------------------------
(* set_web_password_hashed, from a login that upgrades the record and from *)
(* a change.                                                               *)
LEMMA InvalidateStep ==
  ASSUME NEW t \in Tasks, Inv, Invalidate(t)
  PROVE  Inv'
<1>1. /\ call[t].pc = "invalidate" /\ cache' = "none" /\ UNCHANGED <<record, set>>
      /\ Goto(t, "write", call[t].seen, call[t].answer)
  BY DEF Invalidate, Dropped
<1>2. AloneInv => record.pw = set /\ (call[t].answer => call[t].pw = record.pw)
  BY <1>1, CallTyped DEF AloneInv, Sound
<1> QED
  BY <1>1, <1>2, CallTyped, MoveStep DEF Pcs

LEMMA WriteStep ==
  ASSUME NEW t \in Tasks, Inv, Write(t)
  PROVE  Inv'
<1> DEFINE c == call[t]
<1>1. c.pc = "write" /\ cache' = cache
  BY DEF Write
<1>2. AloneInv => /\ record.pw = set /\ cache = "none"
                  /\ c.answer => c.pw = record.pw
  BY <1>1, CallTyped DEF AloneInv, Sound
<1>3. ASSUME record' = Stored(c.pw), set' = IF c.answer THEN set ELSE c.pw,
             NEW pc \in {"done", "seed"}, Goto(t, pc, c.seen, c.answer)
      PROVE  Inv'
  <2>1. record' \in Records /\ record'.pw = c.pw
    BY <1>3, CallTyped DEF Stored, Records
  <2>2. AloneInv => record'.pw = set'
    BY <1>2, <1>3, <2>1
  <2> QED
    BY <1>1, <1>2, <1>3, <2>1, <2>2, CallTyped, MoveStep DEF Pcs
<1>4. ASSUME UNCHANGED <<record, set>>, NEW pc \in {"done", "seed"},
             pc = "seed" => c.answer, Goto(t, pc, c.seen, c.answer)
      PROVE  Inv'
  BY <1>1, <1>2, <1>4, CallTyped, MoveStep DEF Pcs
<1> QED
  BY <1>3, <1>4 DEF Write

LEMMA SeedStep ==
  ASSUME NEW t \in Tasks, Inv, Seed(t)
  PROVE  Inv'
<1>1. /\ call[t].pc = "seed" /\ cache' = call[t].pw /\ UNCHANGED <<record, set>>
      /\ Goto(t, "done", call[t].seen, call[t].answer)
  BY DEF Seed
<1>2. AloneInv => record.pw = set /\ call[t].pw = record.pw
  BY <1>1, CallTyped DEF AloneInv, Sound
<1> QED
  BY <1>1, <1>2, CallTyped, MoveStep DEF Pcs

LEMMA ReturnStep ==
  ASSUME NEW t \in Tasks, Inv, Return(t)
  PROVE  Inv'
<1>1. /\ call[t].pc = "done" /\ UNCHANGED <<record, cache, set, overlapped>>
      /\ call' = [call EXCEPT ![t] = Idle]
  BY DEF Return
<1>2. TypeInv'
  BY <1>1, IdleCall DEF Inv, TypeInv
<1>3. ASSUME ~overlapped PROVE AloneInv'
  BY <1>1, <1>3, IdleCall, AloneStep DEF Inv, AloneInv
<1> QED
  BY <1>1, <1>2, <1>3 DEF Inv

LEMMA ResetStep ==
  ASSUME Inv, Reset
  PROVE  Inv'
<1>1. \A t \in Tasks : call'[t] = Idle /\ call'[t].pc = "idle"
  BY DEF Reset, Idle, Call
<1>2. /\ UNCHANGED <<record, set, overlapped>> /\ cache' = "none"
      /\ call' = [t \in Tasks |-> Idle]
  BY DEF Reset
<1>3. TypeInv'
  BY <1>2, IdleCall DEF Inv, TypeInv
<1>4. ASSUME ~overlapped PROVE AloneInv'
  BY <1>1, <1>2, <1>4, IdleCall DEF Inv, AloneInv, Alone
<1> QED
  BY <1>2, <1>3, <1>4 DEF Inv

LEMMA InvNext ==
  ASSUME "none" \notin Passwords, Inv, [Next]_vars
  PROVE  Inv'
<1>1. CASE UNCHANGED vars
  BY <1>1 DEF vars, Inv, TypeInv, AloneInv, Alone
<1>2. CASE Reset
  BY <1>2, ResetStep
<1>3. ASSUME NEW t \in Tasks,
             \/ \E pw \in Passwords : Begin(t, "match", pw)
             \/ \E pw \in Passwords \cup {"none"} : Begin(t, "invalidate", pw)
      PROVE  Inv'
  BY <1>3, BeginStep
<1>4. ASSUME NEW t \in Tasks,
             \/ Match(t) \/ Read(t) \/ Derive(t)
             \/ Invalidate(t) \/ Write(t) \/ Seed(t) \/ Return(t)
      PROVE  Inv'
  BY <1>4, MatchStep, ReadStep, DeriveStep, InvalidateStep, WriteStep, SeedStep, ReturnStep
<1> QED
  BY <1>1, <1>2, <1>3, <1>4 DEF Next

-----------------------------------------------------------------------------
(* What web_password.c keeps as long as its two calls never overlap, when  *)
(* no password is the marker of having none: types and what a call knows...           *)
THEOREM InvHolds ==
  ASSUME "none" \notin Passwords
  PROVE  Spec => []Inv
<1>1. Init => Inv
  BY InvInit
<1>2. Inv /\ [Next]_vars => Inv'
  BY InvNext
<1> QED
  BY <1>1, <1>2, PTL DEF Spec

(* ...between calls its cache accepts the stored password only, also when  *)
(* NVS writes fail and across resets...                                    *)
THEOREM CacheNeverStale ==
  ASSUME "none" \notin Passwords
  PROVE  Spec => []CacheCurrentAlone
<1>1. Inv => CacheCurrentAlone
  BY DEF Inv, AloneInv, CacheCurrentAlone, CacheCurrent
<1> QED
  BY <1>1, InvHolds, PTL

(* ...the upgrade of a legacy record keeps the password...                 *)
THEOREM UpgradeKeepsPassword ==
  ASSUME "none" \notin Passwords
  PROVE  Spec => []LastChangeWins
<1>1. Inv => LastChangeWins
  BY DEF Inv, AloneInv, LastChangeWins
<1> QED
  BY <1>1, InvHolds, PTL

(* ...and a verification answers yes to the stored password only.          *)
THEOREM YesMeansStored ==
  ASSUME "none" \notin Passwords
  PROVE  Spec => []AnswersTruthfully
<1>1. Inv => AnswersTruthfully
  BY DEF Inv, AloneInv, Sound, AnswersTruthfully
<1> QED
  BY <1>1, InvHolds, PTL

(* Together: a change of the password takes hold.                          *)
THEOREM PasswordHolds ==
  ASSUME "none" \notin Passwords
  PROVE  Spec => []ChangeHolds
<1>1. CacheCurrentAlone /\ LastChangeWins /\ AnswersTruthfully => ChangeHolds
  BY DEF ChangeHolds
<1> QED
  BY <1>1, CacheNeverStale, UpgradeKeepsPassword, YesMeansStored, PTL

-----------------------------------------------------------------------------
(* The ring that outlives a crash.  A remainder by the ring's size is one  *)
(* subtraction at most.                                                    *)
LEMMA Wraps ==
  ASSUME NEW c \in Nat \ {0}, NEW x \in 0 .. 2 * c - 1
  PROVE  x % c = IF x < c THEN x ELSE x - c
  OBVIOUS

(* Where the i-th byte from the end is; and all but the oldest byte that   *)
(* the ring counts are the last ones of what was said.                     *)
Place(c, head, i) == IF i <= head THEN head - i ELSE head + c - i
EndsWith(buf, head, count, text) ==
  \A i \in 1 .. count - 1 : buf[Place(RtcCap, head, i)] = text[Len(text) + 1 - i]

LEMMA HeadMoves ==
  ASSUME NEW h \in 0 .. RtcCap - 1
  PROVE  (h + 1) % RtcCap = (IF h + 1 < RtcCap THEN h + 1 ELSE 0)
<1>1. h + 1 \in 0 .. 2 * RtcCap - 1
  BY RingAssumption
<1>2. (h + 1) % RtcCap = IF h + 1 < RtcCap THEN h + 1 ELSE h + 1 - RtcCap
  BY <1>1, RingAssumption, Wraps
<1> QED
  BY <1>2, RingAssumption

LEMMA HeadInside ==
  ASSUME NEW h \in 0 .. RtcCap - 1
  PROVE  (h + 1) % RtcCap \in 0 .. RtcCap - 1
<1>1. h + 1 < RtcCap => h + 1 \in 0 .. RtcCap - 1
  BY RingAssumption
<1>2. 0 \in 0 .. RtcCap - 1
  BY RingAssumption
<1> QED
  BY <1>1, <1>2, HeadMoves, Zenon

(* A byte stored at the head, which then moves on: the last byte is that   *)
(* one, and the others are one further from the end.                       *)
LEMMA StoredLast ==
  ASSUME NEW buf \in [0 .. RtcCap - 1 -> Int], NEW h \in 0 .. RtcCap - 1, NEW n \in 0 .. RtcCap,
         NEW b \in Int, NEW text \in Seq(Int), n <= Len(text), EndsWith(buf, h, n, text),
         NEW m \in 0 .. RtcCap, m <= n + 1
  PROVE  EndsWith([buf EXCEPT ![h] = b], (h + 1) % RtcCap, m, Append(text, b))
<1> DEFINE g == IF h + 1 < RtcCap THEN h + 1 ELSE 0
           new == [buf EXCEPT ![h] = b]
<1>1. (h + 1) % RtcCap = g
  BY HeadMoves
<1>0. Len(Append(text, b)) + 1 = Len(text) + 2 /\ Append(text, b) \in Seq(Int)
  OBVIOUS
<1> SUFFICES ASSUME NEW i \in 1 .. m - 1
             PROVE  new[Place(RtcCap, g, i)] = Append(text, b)[Len(text) + 2 - i]
  <2> SUFFICES \A i \in 1 .. m - 1 :
                 new[Place(RtcCap, g, i)] = Append(text, b)[Len(Append(text, b)) + 1 - i]
    BY <1>1 DEF EndsWith
  <2>1. Len(Append(text, b)) = Len(text) + 1 /\ Len(text) \in Nat
    OBVIOUS
  <2>2. \A i \in 1 .. m - 1 : Len(Append(text, b)) + 1 - i = Len(text) + 2 - i
    BY <2>1
  <2> HIDE DEF new, g
  <2> QED
    BY <2>2, Zenon
<1>2. i \in 1 .. RtcCap - 1 /\ i <= n
  BY RingAssumption
<1>3. CASE i = 1
  <2>1. Place(RtcCap, g, i) = h
    BY <1>3, RingAssumption DEF Place
  <2>2. Append(text, b)[Len(text) + 1] = b
    OBVIOUS
  <2>3. new[h] = b /\ Len(text) + 2 - 1 = Len(text) + 1
    OBVIOUS
  <2> HIDE DEF new, g
  <2> QED
    BY <1>3, <2>1, <2>2, <2>3
<1>4. CASE i # 1
  <2>1. i - 1 \in 1 .. n - 1
    BY <1>2, <1>4
  <2>2. Place(RtcCap, g, i) = Place(RtcCap, h, i - 1) /\ Place(RtcCap, h, i - 1) # h /\ Place(RtcCap, h, i - 1) \in 0 .. RtcCap - 1
    BY <1>2, <1>4, RingAssumption DEF Place
  <2>3. buf[Place(RtcCap, h, i - 1)] = text[Len(text) + 1 - (i - 1)]
    BY <2>1 DEF EndsWith
  <2>4. Len(text) + 2 - i \in 1 .. Len(text) /\ Len(text) + 1 - (i - 1) = Len(text) + 2 - i
    BY <1>2, <1>4
  <2>5. Append(text, b)[Len(text) + 2 - i] = text[Len(text) + 2 - i]
    BY <2>4
  <2>6. new[Place(RtcCap, g, i)] = buf[Place(RtcCap, h, i - 1)]
    BY <2>2
  <2> QED
    BY <2>3, <2>4, <2>5, <2>6
<1> QED
  BY <1>3, <1>4

(* A byte stored over the oldest one, the head where it was.               *)
LEMMA StoredOver ==
  ASSUME NEW buf \in [0 .. RtcCap - 1 -> Int], NEW h \in 0 .. RtcCap - 1, NEW n \in 0 .. RtcCap,
         NEW b \in Int, NEW text \in Seq(Int), EndsWith(buf, h, n, text)
  PROVE  EndsWith([buf EXCEPT ![h] = b], h, n, text)
<1> SUFFICES ASSUME NEW i \in 1 .. n - 1
             PROVE  [buf EXCEPT ![h] = b][Place(RtcCap, h, i)] = text[Len(text) + 1 - i]
  BY DEF EndsWith
<1>1. i \in 1 .. RtcCap - 1
  BY RingAssumption
<1>2. Place(RtcCap, h, i) # h /\ Place(RtcCap, h, i) \in 0 .. RtcCap - 1
  BY <1>1, RingAssumption DEF Place
<1>3. buf[Place(RtcCap, h, i)] = text[Len(text) + 1 - i]
  BY DEF EndsWith
<1> QED
  BY <1>2, <1>3

(* What log_capture_init reads of the ring: where the i-th byte of count   *)
(* is, from the first.                                                     *)
LEMMA ReadFrom ==
  ASSUME NEW c \in Nat \ {0}, NEW h \in 0 .. c - 1, NEW n \in 0 .. c, NEW i \in 1 .. n
  PROVE  (((h + c - n) % c) + i - 1) % c = Place(c, h, n + 1 - i)
<1> DEFINE start == IF h + c - n < c THEN h + c - n ELSE h - n
           x == start + i - 1
<1>1. h + c - n \in 0 .. 2 * c - 1
  OBVIOUS
<1>2. (h + c - n) % c = start
  <2> DEFINE y == h + c - n
  <2>1. y % c = IF y < c THEN y ELSE y - c
    <3>1. y \in 0 .. 2 * c - 1
      BY <1>1
    <3> HIDE DEF y
    <3> QED BY <3>1, Wraps
  <2> QED
    BY <2>1
<1>3. x \in 0 .. 2 * c - 1
  OBVIOUS
<1>4. x % c = IF x < c THEN x ELSE x - c
  <2> HIDE DEF x
  <2> QED BY <1>3, Wraps
<1>5. x < c => x = Place(c, h, n + 1 - i)
  BY DEF Place
<1>6. ~(x < c) => x - c = Place(c, h, n + 1 - i)
  BY DEF Place
<1>7. x % c = Place(c, h, n + 1 - i)
  <2> HIDE DEF x
  <2> QED BY <1>4, <1>5, <1>6
<1>8. ((h + c - n) % c) + i - 1 = x
  BY <1>2
<1> QED
  BY <1>7, <1>8

(* What holds of the ring in every state: the whole of the count but in a  *)
(* panic, which one byte may have met between its store and its count.     *)
Rings == [magic : BOOLEAN, buf : [0 .. RtcCap - 1 -> Int], head : 0 .. RtcCap - 1, count : 0 .. RtcCap]
RingTyped ==
  /\ rtc \in Rings /\ bytes \in Int /\ panic \in BOOLEAN
  /\ line \in [Loggers -> Seq(Int)] /\ said \in Seq(Int) /\ before \in Seq(Int)
RingCounts ==
  /\ rtc.count <= Len(said) /\ rtc.count >= C!Lower(Len(said), RtcCap) - 1
  /\ ~panic => rtc.count >= C!Lower(Len(said), RtcCap)
HolderCopies == holder # C!Nobody => holder \in Loggers /\ line[holder] # <<>>
CrashInv ==
  /\ RingTyped /\ RingCounts /\ HolderCopies
  /\ EndsWith(rtc.buf, rtc.head, rtc.count, said)
  /\ C!SnapshotIsTheEnd
LEMMA PutKeeps ==
  ASSUME NEW r \in Rings, NEW b \in Int, NEW text \in Seq(Int),
         r.count <= Len(text), EndsWith(r.buf, r.head, r.count, text)
  PROVE  /\ C!Put(r, b) \in Rings
         /\ C!Put(r, b).count = IF r.count + 1 <= RtcCap THEN r.count + 1 ELSE RtcCap
         /\ EndsWith(C!Put(r, b).buf, C!Put(r, b).head, C!Put(r, b).count, Append(text, b))
<1> DEFINE m == IF r.count + 1 <= RtcCap THEN r.count + 1 ELSE RtcCap
           new == [r.buf EXCEPT ![r.head] = b]
<1>1. r.head \in 0 .. RtcCap - 1 /\ r.count \in 0 .. RtcCap /\ r.buf \in [0 .. RtcCap - 1 -> Int]
      /\ m \in 0 .. RtcCap /\ m <= r.count + 1
  BY RingAssumption DEF Rings
<1>2. (r.head + 1) % RtcCap \in 0 .. RtcCap - 1
  <2>1. PICK h \in 0 .. RtcCap - 1 : h = r.head
    BY <1>1
  <2>2. (h + 1) % RtcCap \in 0 .. RtcCap - 1
    BY HeadInside
  <2> QED
    BY <2>1, <2>2
<1> DEFINE q == [magic |-> r.magic, buf |-> new, head |-> (r.head + 1) % RtcCap, count |-> m]
<1>3. C!Put(r, b) = q
  <2>1. C!Lower(r.count + 1, RtcCap) = m
    BY DEF C!Lower
  <2>2. r = [magic |-> r.magic, buf |-> r.buf, head |-> r.head, count |-> r.count]
    BY DEF Rings
  <2>3. C!Put(r, b) = [r EXCEPT !.buf = new, !.head = (r.head + 1) % RtcCap, !.count = m]
    BY <2>1 DEF C!Put, Rings
  <2> HIDE DEF m, new
  <2> QED
    BY <2>2, <2>3 DEF Rings
<1>4. EndsWith(new, (r.head + 1) % RtcCap, m, Append(text, b))
  BY <1>1, StoredLast
<1>5. C!Put(r, b) \in Rings
  BY <1>1, <1>2, <1>3 DEF Rings
<1> QED
  BY <1>3, <1>4, <1>5

LEMMA CrashStarts == ControlInit => CrashInv
<1> SUFFICES ASSUME ControlInit PROVE CrashInv
  OBVIOUS
<1>1. /\ rtc = C!Sealed /\ line = [t \in Loggers |-> <<>>] /\ holder = C!Nobody /\ panic = FALSE
      /\ snapshot = C!NoSnapshot /\ bytes = 0 /\ said = <<>> /\ before = <<>>
  BY DEF ControlInit, C!Init
<1>2. rtc \in Rings /\ rtc.count = 0 /\ Len(said) = 0
  BY <1>1, RingAssumption DEF C!Sealed, Rings
<1>3. RingTyped
  <2>1. <<>> \in Seq(Int) /\ 0 \in Int
    OBVIOUS
  <2> QED
    BY <1>1, <1>2, <2>1, Zenon DEF RingTyped
<1>4. RingCounts
  BY <1>2, RingAssumption DEF RingCounts, C!Lower
<1>5. EndsWith(rtc.buf, rtc.head, rtc.count, said)
  BY <1>2 DEF EndsWith
<1>6. C!SnapshotIsTheEnd
  BY <1>1 DEF C!SnapshotIsTheEnd, C!NoSnapshot
<1> QED
  BY <1>1, <1>3, <1>4, <1>5, <1>6 DEF CrashInv, HolderCopies

(* A restart: the copy, if there is one, is read from the ring as it is.   *)
LEMMA Rebooted ==
  ASSUME CrashInv, NEW r \in Rings, NEW text \in Seq(Int), C!Reboot(r, text),
         r.magic => /\ r.count <= Len(text) /\ r.count >= C!Lower(Len(text), RtcCap) - 1
                    /\ EndsWith(r.buf, r.head, r.count, text)
  PROVE  CrashInv'
<1>1. r.head \in 0 .. RtcCap - 1 /\ r.count \in 0 .. RtcCap /\ r.buf \in [0 .. RtcCap - 1 -> Int]
  BY DEF Rings
<1>2. /\ snapshot' \in C!Copies(r) /\ before' = text /\ said' = <<>> /\ bytes' = 0
      /\ line' = [t \in Loggers |-> <<>>] /\ holder' = C!Nobody /\ panic' = FALSE
      /\ rtc' = [C!Fresh EXCEPT !.buf = r.buf]
  BY DEF C!Reboot
<1> DEFINE n == r.count
           copy == [valid |-> TRUE,
                    bytes |-> [i \in 1 .. n |-> r.buf[(C!Start(r) + i - 1) % RtcCap]]]
<1>3. snapshot' = C!NoSnapshot \/ (snapshot' = copy /\ r.magic)
  BY <1>2 DEF C!Copies
<1>4. ASSUME r.magic, NEW i \in 2 .. n
      PROVE  r.buf[(C!Start(r) + i - 1) % RtcCap] = text[Len(text) - n + i]
  <2>1. i \in 1 .. n /\ n + 1 - i \in 1 .. n - 1
    BY <1>1
  <2>2. (C!Start(r) + i - 1) % RtcCap = Place(RtcCap, r.head, n + 1 - i)
    BY <1>1, <2>1, ReadFrom, RingAssumption DEF C!Start
  <2>3. r.buf[Place(RtcCap, r.head, n + 1 - i)] = text[Len(text) + 1 - (n + 1 - i)]
    BY <1>4, <2>1 DEF EndsWith
  <2>4. Len(text) + 1 - (n + 1 - i) = Len(text) - n + i
    <3>1. Len(text) \in Int /\ n \in Int /\ i \in Int
      BY <1>1
    <3> HIDE DEF n
    <3> QED
      BY <3>1
  <2> QED
    BY <2>2, <2>3, <2>4
<1>5. C!SnapshotIsTheEnd'
  <2>1. CASE snapshot' = C!NoSnapshot
    BY <2>1 DEF C!SnapshotIsTheEnd, C!NoSnapshot
  <2>2. CASE snapshot' = copy /\ r.magic
    <3>1. Len(copy.bytes) = n
      BY <1>1
    <3>2. \A i \in 2 .. n : copy.bytes[i] = text[Len(text) - n + i]
      BY <1>1, <1>4, <2>2
    <3>3. n <= Len(text) /\ n >= C!Lower(Len(text), RtcCap) - 1
      BY <2>2
    <3>4. snapshot'.bytes = copy.bytes /\ before' = text
      BY <1>2, <2>2
    <3> HIDE DEF copy, n
    <3> QED
      BY <3>1, <3>2, <3>3, <3>4 DEF C!SnapshotIsTheEnd
  <2> QED
    BY <1>3, <2>1, <2>2
<1>6. rtc' \in Rings /\ rtc'.count = 0
  <2>1. rtc \in Rings
    BY DEF CrashInv, RingTyped
  <2>2. C!Fresh \in Rings /\ C!Fresh.count = 0
    <3>1. 0 \in 0 .. RtcCap - 1 /\ 0 \in 0 .. RtcCap
      BY RingAssumption
    <3>2. C!Fresh = [rtc EXCEPT !.magic = TRUE, !.head = 0, !.count = 0]
      BY DEF C!Fresh
    <3> HIDE DEF CrashInv
    <3> QED
      BY <2>1, <3>1, <3>2 DEF Rings
  <2> QED
    BY <1>1, <1>2, <2>2 DEF Rings
<1>7. RingTyped'
  <2>1. <<>> \in Seq(Int) /\ 0 \in Int
    OBVIOUS
  <2> QED
    BY <1>2, <1>6, <2>1, Zenon DEF RingTyped
<1>8. RingCounts'
  <2>1. Len(said') = 0
    BY <1>2
  <2> QED
    BY <1>6, <2>1, RingAssumption DEF RingCounts, C!Lower
<1>9. EndsWith(rtc.buf, rtc.head, rtc.count, said)'
  BY <1>6 DEF EndsWith
<1> QED
  BY <1>2, <1>5, <1>7, <1>8, <1>9 DEF CrashInv, HolderCopies

(* A cut in the loop under the lock leaves what a whole byte leaves, but   *)
(* for the count.                                                          *)
LEMMA CutKeeps ==
  ASSUME CrashInv, ~panic, NEW how \in {"none", "stored", "moved"},
         NEW r, r = C!Cut(how).ring, NEW text, text = C!Cut(how).said
  PROVE  /\ r \in Rings /\ text \in Seq(Int)
         /\ r.count <= Len(text) /\ r.count >= C!Lower(Len(text), RtcCap) - 1
         /\ EndsWith(r.buf, r.head, r.count, text)
<1> DEFINE b == Head(line[holder])
           new == [rtc.buf EXCEPT ![rtc.head] = b]
<1>1. /\ rtc \in Rings /\ said \in Seq(Int) /\ rtc.count <= Len(said)
      /\ rtc.count >= C!Lower(Len(said), RtcCap) - 1 /\ rtc.count >= C!Lower(Len(said), RtcCap)
      /\ EndsWith(rtc.buf, rtc.head, rtc.count, said)
  BY DEF CrashInv, RingTyped, RingCounts
<1>2. CASE holder = C!Nobody \/ how = "none"
  <2>1. r = rtc /\ text = said
    BY <1>2 DEF C!Cut
  <2> QED
    BY <1>1, <2>1
<1>3. CASE holder # C!Nobody /\ how # "none"
  <2>1. b \in Int
    BY <1>3 DEF CrashInv, HolderCopies, RingTyped
  <2>2. /\ rtc.head \in 0 .. RtcCap - 1 /\ rtc.count \in 0 .. RtcCap
        /\ rtc.buf \in [0 .. RtcCap - 1 -> Int] /\ new \in [0 .. RtcCap - 1 -> Int]
    BY <1>1, <2>1 DEF Rings
  <2>3. CASE how = "stored"
    <3>1. r = [rtc EXCEPT !.buf = new] /\ text = said
      BY <1>1, <1>3, <2>3 DEF C!Cut, Rings
    <3>2. r \in Rings /\ r.buf = new /\ r.head = rtc.head /\ r.count = rtc.count
      BY <1>1, <2>2, <3>1 DEF Rings
    <3>3. EndsWith(new, rtc.head, rtc.count, said)
      BY <1>1, <2>1, <2>2, StoredOver
    <3> QED
      BY <1>1, <3>1, <3>2, <3>3
  <2>4. CASE how = "moved"
    <3>1. r = [rtc EXCEPT !.buf = new, !.head = (rtc.head + 1) % RtcCap] /\ text = Append(said, b)
      BY <1>1, <1>3, <2>4 DEF C!Cut, Rings
    <3>2. (rtc.head + 1) % RtcCap \in 0 .. RtcCap - 1
      BY <2>2, HeadInside, Zenon
    <3>3. r \in Rings /\ r.buf = new /\ r.head = (rtc.head + 1) % RtcCap /\ r.count = rtc.count
      BY <1>1, <2>2, <3>1, <3>2 DEF Rings
    <3>4. EndsWith(new, (rtc.head + 1) % RtcCap, rtc.count, Append(said, b))
      <4>1. rtc.count <= rtc.count + 1
        BY <2>2
      <4> HIDE DEF b
      <4> QED
        BY <1>1, <2>1, <2>2, <4>1, StoredLast
    <3>5. text \in Seq(Int) /\ Len(text) = Len(said) + 1
      BY <1>1, <2>1, <3>1
    <3>6. rtc.count <= Len(said) + 1 /\ rtc.count >= C!Lower(Len(said) + 1, RtcCap) - 1
      <4>1. Len(said) \in Nat /\ RtcCap \in Nat \ {0} /\ rtc.count \in 0 .. RtcCap
        BY <1>1, <2>2, RingAssumption
      <4>2. rtc.count <= Len(said) /\ rtc.count >= C!Lower(Len(said), RtcCap)
        BY <1>1
      <4> HIDE DEF CrashInv
      <4> QED
        BY <4>1, <4>2 DEF C!Lower
    <3> QED
      BY <3>1, <3>3, <3>4, <3>5, <3>6
  <2> QED
    BY <1>3, <2>3, <2>4
<1> QED
  BY <1>2, <1>3

(* Another byte at the end of the ring, from a task that holds the lock or *)
(* from the panic handler.                                                 *)
LEMMA ByteAdded ==
  ASSUME CrashInv, NEW b \in Int, said' = Append(said, b),
         rtc'.buf = C!Put(rtc, b).buf, rtc'.head = C!Put(rtc, b).head,
         rtc'.count = C!Put(rtc, b).count, panic' = panic
  PROVE  /\ RingCounts' /\ EndsWith(rtc.buf, rtc.head, rtc.count, said)'
         /\ said' \in Seq(Int) /\ C!Put(rtc, b) \in Rings
<1>1. /\ rtc \in Rings /\ said \in Seq(Int) /\ RingCounts
      /\ EndsWith(rtc.buf, rtc.head, rtc.count, said) /\ rtc.count <= Len(said)
  BY DEF CrashInv, RingTyped, RingCounts
<1>2. /\ C!Put(rtc, b) \in Rings
      /\ C!Put(rtc, b).count = IF rtc.count + 1 <= RtcCap THEN rtc.count + 1 ELSE RtcCap
      /\ EndsWith(C!Put(rtc, b).buf, C!Put(rtc, b).head, C!Put(rtc, b).count, Append(said, b))
  BY <1>1, PutKeeps
<1>3. said' \in Seq(Int) /\ Len(said') = Len(said) + 1 /\ Len(said) \in Nat
  BY <1>1
<1>4. EndsWith(rtc.buf, rtc.head, rtc.count, said)'
  BY <1>2 DEF EndsWith
<1>5. rtc.count \in 0 .. RtcCap
  BY <1>1 DEF Rings
<1>6. RingCounts'
  <2>1. RtcCap \in Nat \ {0}
    BY RingAssumption
  <2>2. rtc'.count = IF rtc.count + 1 <= RtcCap THEN rtc.count + 1 ELSE RtcCap
    BY <1>2
  <2> HIDE DEF CrashInv
  <2>3. rtc'.count <= Len(said')
    BY <1>1, <1>3, <1>5, <2>1, <2>2
  <2>4. C!Lower(Len(said), RtcCap) - 1 <= rtc.count /\ (~panic => C!Lower(Len(said), RtcCap) <= rtc.count)
    BY <1>1, <1>3, <1>5, <2>1 DEF RingCounts, C!Lower
  <2>5. /\ C!Lower(Len(said'), RtcCap) - 1 <= rtc'.count
        /\ ~panic => C!Lower(Len(said'), RtcCap) <= rtc'.count
    <3> DEFINE c == rtc.count
               n == Len(said)
    <3>1. c \in Nat /\ n \in Nat /\ RtcCap \in Nat /\ Len(said') = n + 1
          /\ rtc'.count = IF c + 1 <= RtcCap THEN c + 1 ELSE RtcCap
      BY <1>3, <1>5, <2>1, <2>2
    <3>2. C!Lower(n, RtcCap) - 1 <= c /\ (~panic => C!Lower(n, RtcCap) <= c)
      BY <2>4
    <3>3. C!Lower(n + 1, RtcCap) <= C!Lower(n, RtcCap) + 1 /\ C!Lower(n + 1, RtcCap) <= RtcCap
          /\ C!Lower(n + 1, RtcCap) \in Nat /\ C!Lower(n, RtcCap) \in Nat
      BY <3>1 DEF C!Lower
    <3> HIDE DEF c, n
    <3> QED
      BY <3>1, <3>2, <3>3
  <2>6. C!Lower(Len(said'), RtcCap) \in Nat /\ rtc'.count \in Nat
    BY <1>3, <1>5, <2>1, <2>2 DEF C!Lower
  <2> QED
    BY <2>3, <2>5, <2>6 DEF RingCounts
<1> QED
  BY <1>2, <1>3, <1>4, <1>6

LEMMA CrashSteps == CrashInv /\ C!Next => CrashInv'
<1> SUFFICES ASSUME CrashInv, C!Next PROVE CrashInv'
  OBVIOUS
<1> USE DEF CrashInv
<1>1. ASSUME NEW t \in Loggers, C!Log(t) PROVE CrashInv'
  <2>1. PICK k \in 1 .. MaxLine : bytes' = bytes + k /\ line' = [line EXCEPT ![t] = C!Numbers(k)]
    BY <1>1 DEF C!Log
  <2>2. C!Numbers(k) \in Seq(Int) /\ bytes' \in Int
    BY <2>1 DEF RingTyped, C!Numbers
  <2>3. RingTyped'
    BY <1>1, <2>1, <2>2 DEF RingTyped, C!Log
  <2>4. RingCounts'
    BY <1>1 DEF C!Log, RingCounts
  <2>5. HolderCopies'
    BY <1>1, <2>1 DEF C!Log, HolderCopies, RingTyped
  <2>6. EndsWith(rtc.buf, rtc.head, rtc.count, said)' /\ C!SnapshotIsTheEnd'
    BY <1>1 DEF C!Log, EndsWith, C!SnapshotIsTheEnd
  <2> QED
    BY <2>3, <2>4, <2>5, <2>6
<1>2. ASSUME NEW t \in Loggers, C!Lock(t) PROVE CrashInv'
  <2>1. RingTyped' /\ RingCounts' /\ HolderCopies'
    BY <1>2 DEF C!Lock, RingTyped, RingCounts, HolderCopies
  <2>2. EndsWith(rtc.buf, rtc.head, rtc.count, said)' /\ C!SnapshotIsTheEnd'
    BY <1>2 DEF C!Lock, EndsWith, C!SnapshotIsTheEnd
  <2> QED
    BY <2>1, <2>2
<1>3. ASSUME NEW t \in Loggers, C!Copied(t) PROVE CrashInv'
  <2> DEFINE b == Head(line[t])
  <2>1. line[t] \in Seq(Int) /\ line[t] # <<>> /\ holder = t
    BY <1>3, RingAssumption DEF C!Copied, HolderCopies, RingTyped, C!Nobody
  <2>2. b \in Int /\ Tail(line[t]) \in Seq(Int) /\ (Len(line[t]) # 1 => Tail(line[t]) # <<>>)
    <3>1. ASSUME NEW q \in Seq(Int), q # <<>>
          PROVE  Head(q) \in Int /\ Tail(q) \in Seq(Int) /\ (Len(q) # 1 => Tail(q) # <<>>)
      <4>1. Len(q) \in Nat \ {0} /\ Head(q) \in Int /\ Tail(q) \in Seq(Int)
        BY <3>1
      <4>2. Len(Tail(q)) = Len(q) - 1
        BY <3>1, HeadTailProperties
      <4>3. Len(q) # 1 => Tail(q) # <<>>
        <5>1. Len(<<>>) = 0
          OBVIOUS
        <5>2. Len(q) # 1 => Len(Tail(q)) # 0
          BY <4>1, <4>2
        <5> QED
          BY <5>1, <5>2
      <4> QED
        BY <4>1, <4>3
    <3> QED
      BY <2>1, <3>1
  <2>3. RingCounts' /\ EndsWith(rtc.buf, rtc.head, rtc.count, said)' /\ said' \in Seq(Int) /\ rtc' \in Rings
    <3>1. rtc' = C!Put(rtc, b) /\ said' = Append(said, b) /\ panic' = panic
      BY <1>3 DEF C!Copied
    <3> HIDE DEF b
    <3> QED
      BY <2>2, <3>1, ByteAdded
  <2>4. RingTyped'
    BY <1>3, <2>2, <2>3 DEF RingTyped, C!Copied
  <2>5. HolderCopies'
    BY <1>3, <2>1, <2>2 DEF C!Copied, HolderCopies, RingTyped
  <2>6. C!SnapshotIsTheEnd'
    BY <1>3 DEF C!Copied, C!SnapshotIsTheEnd
  <2> QED
    BY <2>3, <2>4, <2>5, <2>6
<1>4. CASE C!Panic
  <2>1. PICK how \in {"none", "stored", "moved"} : rtc' = C!Cut(how).ring /\ said' = C!Cut(how).said
    BY <1>4 DEF C!Panic
  <2>2. /\ rtc' \in Rings /\ said' \in Seq(Int)
        /\ rtc'.count <= Len(said') /\ rtc'.count >= C!Lower(Len(said'), RtcCap) - 1
        /\ EndsWith(rtc'.buf, rtc'.head, rtc'.count, said')
    BY <1>4, <2>1, CutKeeps DEF C!Panic
  <2>3. RingTyped'
    <3>1. <<>> \in Seq(Int)
      OBVIOUS
    <3> QED
      BY <1>4, <2>2, <3>1 DEF RingTyped, C!Panic
  <2>4. RingCounts' /\ HolderCopies'
    BY <1>4, <2>2 DEF RingCounts, HolderCopies, C!Panic, C!Lower
  <2>5. C!SnapshotIsTheEnd' /\ EndsWith(rtc.buf, rtc.head, rtc.count, said)'
    BY <1>4, <2>2 DEF C!Panic, C!SnapshotIsTheEnd, EndsWith
  <2> QED
    BY <2>3, <2>4, <2>5
<1>5. CASE C!PanicByte
  <2>1. bytes' \in Int /\ panic' = panic
    BY <1>5 DEF C!PanicByte, RingTyped
  <2>2. C!Put(rtc, bytes') \in Rings
    BY <2>1, PutKeeps DEF RingTyped, RingCounts
  <2>3. /\ rtc' = [C!Put(rtc, bytes') EXCEPT !.magic = TRUE] /\ said' = Append(said, bytes')
    BY <1>5 DEF C!PanicByte
  <2>4. /\ rtc'.buf = C!Put(rtc, bytes').buf /\ rtc'.head = C!Put(rtc, bytes').head
        /\ rtc'.count = C!Put(rtc, bytes').count /\ rtc' \in Rings
    BY <2>2, <2>3 DEF Rings
  <2>5. RingCounts' /\ EndsWith(rtc.buf, rtc.head, rtc.count, said)' /\ said' \in Seq(Int)
    BY <2>1, <2>3, <2>4, ByteAdded
  <2>6. RingTyped' /\ HolderCopies' /\ C!SnapshotIsTheEnd'
    BY <1>5, <2>1, <2>4, <2>5 DEF RingTyped, C!PanicByte, HolderCopies, C!SnapshotIsTheEnd
  <2> QED
    BY <2>5, <2>6
<1>6. CASE C!Restart
  <2>1. rtc \in Rings /\ said \in Seq(Int) /\ C!Reboot(rtc, said) /\ rtc.count <= Len(said)
        /\ rtc.count >= C!Lower(Len(said), RtcCap) - 1 /\ EndsWith(rtc.buf, rtc.head, rtc.count, said)
    BY <1>6 DEF C!Restart, RingTyped, RingCounts
  <2> HIDE DEF CrashInv
  <2> QED
    BY <2>1, Rebooted
<1>7. CASE C!PowerLoss
  <2> DEFINE r == [rtc EXCEPT !.magic = FALSE]
             none == <<>>
  <2>1. r \in Rings /\ ~r.magic /\ none \in Seq(Int)
    <3>1. rtc \in Rings /\ none \in Seq(Int)
      BY DEF RingTyped
    <3>2. r \in Rings /\ ~r.magic
      BY <3>1 DEF Rings
    <3> QED
      BY <3>1, <3>2
  <2>2. C!Reboot(r, none)
    BY <1>7 DEF C!PowerLoss
  <2> HIDE DEF r, none, CrashInv
  <2>3. r.magic => /\ r.count <= Len(none) /\ r.count >= C!Lower(Len(none), RtcCap) - 1
                   /\ EndsWith(r.buf, r.head, r.count, none)
    BY <2>1
  <2> QED
    BY <2>1, <2>2, <2>3, Rebooted
<1>8. CASE C!ClearSnapshot
  <2>1. RingTyped' /\ RingCounts' /\ HolderCopies' /\ EndsWith(rtc.buf, rtc.head, rtc.count, said)'
    BY <1>8 DEF C!ClearSnapshot, RingTyped, RingCounts, HolderCopies, EndsWith
  <2>2. C!SnapshotIsTheEnd'
    BY <1>8 DEF C!ClearSnapshot, C!SnapshotIsTheEnd, C!NoSnapshot
  <2> QED
    BY <2>1, <2>2
<1> QED
  BY <1>1, <1>2, <1>3, <1>4, <1>5, <1>6, <1>7, <1>8 DEF C!Next

(* C!SnapshotIsTheEnd, "the last few KB of log lines before a PANIC are    *)
(* readable on the next boot": whatever the tasks were copying and the     *)
(* handler had written when the board restarted, the copy is the end of    *)
(* the log without a gap, as far as the ring reaches, but for its first    *)
(* byte.                                                                   *)
THEOREM SnapshotTrue == ControlSpec => []SnapshotIsTheEnd
<1>1. ControlInit => CrashInv
  BY CrashStarts
<1>2. CrashInv /\ [ControlNext]_<<on, wv, vars, tv, s, lv, cv>> => CrashInv'
  <2> SUFFICES ASSUME CrashInv, [ControlNext]_<<on, wv, vars, tv, s, lv, cv>> PROVE CrashInv'
    OBVIOUS
  <2>1. C!Next \/ UNCHANGED cv
    BY DEF ControlNext
  <2>2. CASE C!Next
    BY <2>2, CrashSteps
  <2>3. CASE UNCHANGED cv
    BY <2>3 DEF cv, CrashInv, RingTyped, RingCounts, HolderCopies, EndsWith, C!SnapshotIsTheEnd
  <2> QED
    BY <2>1, <2>2, <2>3
<1>3. CrashInv => SnapshotIsTheEnd
  BY DEF CrashInv, SnapshotIsTheEnd
<1> QED
  BY <1>1, <1>2, <1>3, PTL DEF ControlSpec

-----------------------------------------------------------------------------
(* The settings of the tailnet: where a save, a command and a reconnect    *)
(* are on their way, and what RAM, NVS and the control plane hold there.   *)
Settings == [adv : BOOLEAN, exit : {0} \cup Exits, mtu : {0} \cup Sizes]
SavePcs == {"idle", "mirror", "adv", "exit", "mirrorExit", "mtu", "answer"}
SettingsTyped ==
  /\ ram \in Settings /\ nvs \in Settings
  /\ http \in [pc : SavePcs, adv : T!Optional(BOOLEAN), exit : T!Optional({0} \cup Exits),
               mtu : T!Optional(Sizes)]
  /\ errs \in Nat /\ mq \in [pc : {"idle", "store", "apply", "kick"}, on : BOOLEAN]
  /\ pending \in BOOLEAN /\ rc \in [pc : {"idle", "down", "up"}, adv : BOOLEAN]
  /\ registered \in BOOLEAN /\ crossed \in BOOLEAN /\ missed \in BOOLEAN /\ saved \in BOOLEAN

(* A save and a command that do not cross leave one mode at most; during   *)
(* the save RAM may hold the old exit node and the new switch.             *)
Modes ==
  ~crossed =>
    /\ http.pc = "idle" \/ mq.pc = "idle"
    /\ http.pc = "mirror" => ~T!Both(http.adv, http.exit)
    /\ http.pc \in {"adv", "exit", "mirrorExit"} => ~(ram.adv /\ T!Given(http.exit, ram.exit) # 0)
    /\ http.pc \in {"idle", "mtu", "answer"} => ~(ram.adv /\ ram.exit # 0)
    /\ mq.pc \in {"store", "apply"} /\ mq.on => ram.exit = 0

(* What the save has stored without an error so far is what RAM holds, or  *)
(* what it is about to.                                                    *)
SavedSoFar ==
  ~crossed =>
    /\ http.adv # {} /\ http.pc \in {"adv", "exit", "mirrorExit", "mtu", "answer"} =>
         ram.adv = T!Given(http.adv, ram.adv)
    /\ http.adv # {} /\ http.pc \in {"exit", "mirrorExit", "mtu", "answer"} /\ errs = 0 =>
         nvs.adv = ram.adv
    /\ http.exit # {} /\ http.pc = "mirrorExit" /\ errs = 0 => nvs.exit = T!Given(http.exit, nvs.exit)
    /\ http.exit # {} /\ http.pc \in {"mtu", "answer"} /\ errs = 0 => nvs.exit = ram.exit
    /\ answer = "ok" =>
         /\ http.pc = "idle"
         /\ http.adv # {} => IF mq.pc = "apply" THEN nvs.adv = mq.on ELSE nvs.adv = ram.adv
         /\ http.exit # {} => nvs.exit = ram.exit

(* A reconnect that is under way has the switch as it is, or a later one   *)
(* is due.                                                                 *)
Told ==
  /\ pending <=> rc.pc # "idle"
  /\ ~missed /\ ~saved /\ mq.pc # "kick" =>
       /\ rc.pc = "idle" => registered = ram.adv
       /\ rc.pc = "up" => rc.adv = ram.adv

SettingsInv == SettingsTyped /\ Modes /\ SavedSoFar /\ Told

LEMMA GivenOne ==
  /\ \A x, old : T!Given({x}, old) = x
  /\ \A old : T!Given({}, old) = old
  /\ \A S, old : S = {} => T!Given(S, old) = old
  /\ \A S, old, new : S # {} => T!Given(S, old) = T!Given(S, new)
BY DEF T!Given

LEMMA GivenTyped ==
  ASSUME NEW S, NEW O \in T!Optional(S), NEW old \in S
  PROVE  T!Given(O, old) \in S
BY DEF T!Optional, T!Given

LEMMA OptionalHas ==
  ASSUME NEW S
  PROVE  {} \in T!Optional(S)
BY DEF T!Optional

(* A step of a task that leaves the settings and the save alone.           *)
LEMMA TaskTyped ==
  ASSUME SettingsTyped, UNCHANGED <<ram, nvs, http, errs, crossed>>,
         mq' \in [pc : {"idle", "store", "apply", "kick"}, on : BOOLEAN],
         rc' \in [pc : {"idle", "down", "up"}, adv : BOOLEAN],
         pending' \in BOOLEAN, registered' \in BOOLEAN, missed' \in BOOLEAN, saved' \in BOOLEAN
  PROVE  SettingsTyped'
<1>1. ram' \in Settings /\ nvs' \in Settings
  BY DEF SettingsTyped, Settings
<1>2. /\ http' \in [pc : SavePcs, adv : T!Optional(BOOLEAN), exit : T!Optional({0} \cup Exits),
                     mtu : T!Optional(Sizes)]
      /\ errs' \in Nat /\ crossed' \in BOOLEAN
  BY DEF SettingsTyped
<1>3. /\ Settings' = Settings /\ SavePcs' = SavePcs
      /\ http' \in [pc : SavePcs, adv : T!Optional(BOOLEAN), exit : T!Optional({0} \cup Exits),
                     mtu : T!Optional(Sizes)]'
  BY <1>2 DEF Settings, SavePcs, T!Optional
<1> QED
  BY <1>1, <1>2, <1>3 DEF SettingsTyped

LEMMA SaveSettles ==
  ASSUME SettingsInv, NEW a \in T!Optional(BOOLEAN), NEW e \in T!Optional({0} \cup Exits),
         NEW m \in T!Optional(Sizes), T!Save(a, e, m)
  PROVE  SettingsInv'
<1> USE GivenOne DEF SettingsInv, T!Save, T!web, T!task, T!hist, T!Go, T!Outcome, T!Errors, T!Change, T!Rest, T!Done, T!Loaded, T!Captured, T!Allowed
<1>1. SettingsTyped'
  BY GivenTyped, OptionalHas DEF SettingsTyped, Settings, SavePcs
<1>2. Modes'
  BY DEF SettingsTyped, Settings, SavePcs, Modes, T!Both
<1>3. SavedSoFar'
  BY DEF SettingsTyped, Settings, SavePcs, SavedSoFar, Modes
<1>4. Told'
  BY DEF SettingsTyped, Settings, SavePcs, Told
<1> QED
  BY <1>1, <1>2, <1>3, <1>4

LEMMA CommandSettles ==
  ASSUME SettingsInv, NEW b \in BOOLEAN, T!Command(b)
  PROVE  SettingsInv'
<1> USE GivenOne DEF SettingsInv, T!Command, T!web, T!task, T!hist, T!Go, T!Outcome, T!Errors, T!Change, T!Rest, T!Done, T!Loaded, T!Captured, T!Allowed
<1>1. SettingsTyped'
  BY GivenTyped, OptionalHas DEF SettingsTyped, Settings, SavePcs
<1>2. Modes'
  BY DEF SettingsTyped, Settings, SavePcs, Modes, T!Both
<1>3. SavedSoFar'
  BY DEF SettingsTyped, Settings, SavePcs, SavedSoFar, Modes
<1>4. Told'
  BY DEF SettingsTyped, Settings, SavePcs, Told
<1> QED
  BY <1>1, <1>2, <1>3, <1>4

LEMMA MirrorSettles ==
  ASSUME SettingsInv, T!Mirror
  PROVE  SettingsInv'
<1> USE GivenOne DEF SettingsInv, T!Mirror, T!web, T!task, T!hist, T!Go, T!Outcome, T!Errors, T!Change, T!Rest, T!Done, T!Loaded, T!Captured, T!Allowed
<1>1. SettingsTyped'
  BY GivenTyped, OptionalHas DEF SettingsTyped, Settings, SavePcs
<1>2. Modes'
  BY DEF SettingsTyped, Settings, SavePcs, Modes, T!Both
<1>3. SavedSoFar'
  BY DEF SettingsTyped, Settings, SavePcs, SavedSoFar, Modes
<1>4. Told'
  <2>1. /\ UNCHANGED <<pending, rc, missed, mq, registered>>
        /\ http.adv = {} => ram'.adv = ram.adv /\ saved' = saved
        /\ http.adv # {} => saved' = TRUE
    BY DEF SettingsTyped, Settings
  <2>2. Told /\ saved \in BOOLEAN
    BY DEF SettingsTyped
  <2> HIDE DEF SettingsInv, T!Mirror
  <2> QED
    BY <2>1, <2>2 DEF Told
<1> QED
  BY <1>1, <1>2, <1>3, <1>4

LEMMA StoreAdvSettles ==
  ASSUME SettingsInv, T!StoreAdv
  PROVE  SettingsInv'
<1> USE GivenOne DEF SettingsInv, T!StoreAdv, T!web, T!task, T!hist, T!Go, T!Outcome, T!Errors, T!Change, T!Rest, T!Done, T!Loaded, T!Captured, T!Allowed
<1>1. SettingsTyped'
  BY GivenTyped, OptionalHas DEF SettingsTyped, Settings, SavePcs
<1>2. Modes'
  BY DEF SettingsTyped, Settings, SavePcs, Modes, T!Both
<1>3. SavedSoFar'
  BY DEF SettingsTyped, Settings, SavePcs, SavedSoFar, Modes
<1>4. Told'
  BY DEF SettingsTyped, Settings, SavePcs, Told
<1> QED
  BY <1>1, <1>2, <1>3, <1>4

LEMMA StoreExitSettles ==
  ASSUME SettingsInv, T!StoreExit
  PROVE  SettingsInv'
<1> USE GivenOne DEF SettingsInv, T!StoreExit, T!web, T!task, T!hist, T!Go, T!Outcome, T!Errors, T!Change, T!Rest, T!Done, T!Loaded, T!Captured, T!Allowed
<1>1. SettingsTyped'
  BY GivenTyped, OptionalHas DEF SettingsTyped, Settings, SavePcs
<1>2. Modes'
  BY DEF SettingsTyped, Settings, SavePcs, Modes, T!Both
<1>3. SavedSoFar'
  BY DEF SettingsTyped, Settings, SavePcs, SavedSoFar, Modes
<1>4. Told'
  BY DEF SettingsTyped, Settings, SavePcs, Told
<1> QED
  BY <1>1, <1>2, <1>3, <1>4

LEMMA MirrorExitSettles ==
  ASSUME SettingsInv, T!MirrorExit
  PROVE  SettingsInv'
<1> USE GivenOne DEF SettingsInv, T!MirrorExit, T!web, T!task, T!hist, T!Go, T!Outcome, T!Errors, T!Change, T!Rest, T!Done, T!Loaded, T!Captured, T!Allowed
<1>1. SettingsTyped'
  BY GivenTyped, OptionalHas DEF SettingsTyped, Settings, SavePcs
<1>2. Modes'
  BY DEF SettingsTyped, Settings, SavePcs, Modes, T!Both
<1>3. SavedSoFar'
  BY DEF SettingsTyped, Settings, SavePcs, SavedSoFar, Modes
<1>4. Told'
  BY DEF SettingsTyped, Settings, SavePcs, Told
<1> QED
  BY <1>1, <1>2, <1>3, <1>4

LEMMA SetMtuSettles ==
  ASSUME SettingsInv, T!SetMtu
  PROVE  SettingsInv'
<1> USE GivenOne DEF SettingsInv, T!SetMtu, T!web, T!task, T!hist, T!Go, T!Outcome, T!Errors, T!Change, T!Rest, T!Done, T!Loaded, T!Captured, T!Allowed
<1>1. SettingsTyped'
  <2>1. T!Given(http.mtu, ram.mtu) \in {0} \cup Sizes
    BY DEF SettingsTyped, Settings, T!Optional, T!Given
  <2>2. ram' \in Settings /\ nvs' \in Settings
    BY <2>1 DEF SettingsTyped, Settings
  <2> QED
    BY <2>2 DEF SettingsTyped, SavePcs
<1>2. Modes'
  BY DEF SettingsTyped, Settings, SavePcs, Modes, T!Both
<1>3. SavedSoFar'
  BY DEF SettingsTyped, Settings, SavePcs, SavedSoFar, Modes
<1>4. Told'
  BY DEF SettingsTyped, Settings, SavePcs, Told
<1> QED
  BY <1>1, <1>2, <1>3, <1>4

LEMMA AnswerSettles ==
  ASSUME SettingsInv, T!Answer
  PROVE  SettingsInv'
<1> USE GivenOne DEF SettingsInv, T!Answer, T!web, T!task, T!hist, T!Go, T!Outcome, T!Errors, T!Change, T!Rest, T!Done, T!Loaded, T!Captured, T!Allowed
<1>1. SettingsTyped'
  BY GivenTyped, OptionalHas DEF SettingsTyped, Settings, SavePcs
<1>2. Modes'
  BY DEF SettingsTyped, Settings, SavePcs, Modes, T!Both
<1>3. SavedSoFar'
  BY DEF SettingsTyped, Settings, SavePcs, SavedSoFar, Modes
<1>4. Told'
  BY DEF SettingsTyped, Settings, SavePcs, Told
<1> QED
  BY <1>1, <1>2, <1>3, <1>4

LEMMA CommandStoreSettles ==
  ASSUME SettingsInv, T!CommandStore
  PROVE  SettingsInv'
<1> USE GivenOne DEF SettingsInv, T!CommandStore, T!web, T!task, T!hist, T!Go, T!Outcome, T!Errors, T!Change, T!Rest, T!Done, T!Loaded, T!Captured, T!Allowed
<1>1. SettingsTyped'
  BY GivenTyped, OptionalHas DEF SettingsTyped, Settings, SavePcs
<1>2. Modes'
  BY DEF SettingsTyped, Settings, SavePcs, Modes, T!Both
<1>3. SavedSoFar'
  BY DEF SettingsTyped, Settings, SavePcs, SavedSoFar, Modes
<1>4. Told'
  BY DEF SettingsTyped, Settings, SavePcs, Told
<1> QED
  BY <1>1, <1>2, <1>3, <1>4

LEMMA CommandApplySettles ==
  ASSUME SettingsInv, T!CommandApply
  PROVE  SettingsInv'
<1> USE GivenOne DEF SettingsInv, T!CommandApply, T!web, T!task, T!hist, T!Go, T!Outcome, T!Errors, T!Change, T!Rest, T!Done, T!Loaded, T!Captured, T!Allowed
<1>1. SettingsTyped'
  BY GivenTyped, OptionalHas DEF SettingsTyped, Settings, SavePcs
<1>2. Modes'
  BY DEF SettingsTyped, Settings, SavePcs, Modes, T!Both
<1>3. SavedSoFar'
  BY DEF SettingsTyped, Settings, SavePcs, SavedSoFar, Modes
<1>4. Told'
  BY DEF SettingsTyped, Settings, SavePcs, Told
<1> QED
  BY <1>1, <1>2, <1>3, <1>4

LEMMA KickSettles ==
  ASSUME SettingsInv, T!Kick
  PROVE  SettingsInv'
<1> USE GivenOne DEF SettingsInv, T!Kick, T!web, T!task, T!hist, T!Go, T!Outcome, T!Errors, T!Change, T!Rest, T!Done, T!Loaded, T!Captured, T!Allowed
<1>1. SettingsTyped'
  <2>1. UNCHANGED <<ram, nvs, http, errs, crossed, registered, saved>>
    OBVIOUS
  <2>2. mq' = [mq EXCEPT !.pc = "idle"] /\ (rc' = rc \/ rc' = [rc EXCEPT !.pc = "down"])
    OBVIOUS
  <2>3. pending' \in BOOLEAN /\ missed' \in BOOLEAN
    <3>1. pending \in BOOLEAN /\ missed \in BOOLEAN
      BY DEF SettingsTyped
    <3>2. (pending' = TRUE \/ pending' = pending) /\ (missed' = missed \/ missed' = TRUE)
      OBVIOUS
    <3> HIDE DEF SettingsInv, T!Kick
    <3> QED
      BY <3>1, <3>2
  <2>4. SettingsTyped
    OBVIOUS
  <2> HIDE DEF SettingsInv, T!Kick
  <2>5. /\ mq' \in [pc : {"idle", "store", "apply", "kick"}, on : BOOLEAN]
        /\ rc' \in [pc : {"idle", "down", "up"}, adv : BOOLEAN]
    BY <2>2, <2>4 DEF SettingsTyped
  <2>6. registered' \in BOOLEAN /\ saved' \in BOOLEAN
    BY <2>1, <2>4 DEF SettingsTyped
  <2> QED
    BY <2>1, <2>3, <2>4, <2>5, <2>6, TaskTyped
<1>2. Modes'
  BY DEF SettingsTyped, Settings, SavePcs, Modes, T!Both
<1>3. SavedSoFar'
  BY DEF SettingsTyped, Settings, SavePcs, SavedSoFar, Modes
<1>4. Told'
  BY DEF SettingsTyped, Settings, SavePcs, Told
<1> QED
  BY <1>1, <1>2, <1>3, <1>4

LEMMA BuildSettles ==
  ASSUME SettingsInv, T!Build
  PROVE  SettingsInv'
<1> USE GivenOne DEF SettingsInv, T!Build, T!web, T!task, T!hist, T!Go, T!Outcome, T!Errors, T!Change, T!Rest, T!Done, T!Loaded, T!Captured, T!Allowed
<1>1. SettingsTyped'
  <2>1. UNCHANGED <<ram, nvs, http, errs, crossed, mq, pending, registered>>
    OBVIOUS
  <2>2. rc' = [pc |-> "up", adv |-> ram.adv] /\ missed' \in BOOLEAN /\ saved' \in BOOLEAN
    OBVIOUS
  <2>3. SettingsTyped
    OBVIOUS
  <2> HIDE DEF SettingsInv, T!Build
  <2>4. ram.adv \in BOOLEAN
    BY <2>3 DEF SettingsTyped, Settings
  <2>5. rc' \in [pc : {"idle", "down", "up"}, adv : BOOLEAN]
    BY <2>2, <2>4
  <2>6. /\ mq' \in [pc : {"idle", "store", "apply", "kick"}, on : BOOLEAN]
        /\ registered' \in BOOLEAN /\ pending' \in BOOLEAN
    BY <2>1, <2>3 DEF SettingsTyped
  <2> QED
    BY <2>1, <2>2, <2>3, <2>5, <2>6, TaskTyped
<1>2. Modes'
  BY DEF SettingsTyped, Settings, SavePcs, Modes, T!Both
<1>3. SavedSoFar'
  BY DEF SettingsTyped, Settings, SavePcs, SavedSoFar, Modes
<1>4. Told'
  BY DEF SettingsTyped, Settings, SavePcs, Told
<1> QED
  BY <1>1, <1>2, <1>3, <1>4

LEMMA RegisterSettles ==
  ASSUME SettingsInv, T!Register
  PROVE  SettingsInv'
<1> USE GivenOne DEF SettingsInv, T!Register, T!web, T!task, T!hist, T!Go, T!Outcome, T!Errors, T!Change, T!Rest, T!Done, T!Loaded, T!Captured, T!Allowed
<1>1. SettingsTyped'
  <2>1. UNCHANGED <<ram, nvs, http, errs, crossed, mq, missed, saved>>
    OBVIOUS
  <2>2. rc' = [pc |-> "idle", adv |-> FALSE] /\ registered' = rc.adv /\ pending' \in BOOLEAN
    OBVIOUS
  <2>3. SettingsTyped
    OBVIOUS
  <2> HIDE DEF SettingsInv, T!Register
  <2>4. rc.adv \in BOOLEAN
    BY <2>3 DEF SettingsTyped
  <2>5. rc' \in [pc : {"idle", "down", "up"}, adv : BOOLEAN] /\ registered' \in BOOLEAN
    BY <2>2, <2>4
  <2>6. /\ mq' \in [pc : {"idle", "store", "apply", "kick"}, on : BOOLEAN]
        /\ missed' \in BOOLEAN /\ saved' \in BOOLEAN
    BY <2>1, <2>3 DEF SettingsTyped
  <2> QED
    BY <2>1, <2>2, <2>3, <2>5, <2>6, TaskTyped
<1>2. Modes'
  BY DEF SettingsTyped, Settings, SavePcs, Modes, T!Both
<1>3. SavedSoFar'
  BY DEF SettingsTyped, Settings, SavePcs, SavedSoFar, Modes
<1>4. Told'
  BY DEF SettingsTyped, Settings, SavePcs, Told
<1> QED
  BY <1>1, <1>2, <1>3, <1>4

LEMMA BootSettles ==
  ASSUME SettingsInv, T!Boot
  PROVE  SettingsInv'
<1> USE GivenOne DEF SettingsInv, T!Boot, T!web, T!task, T!hist, T!Go, T!Outcome, T!Errors, T!Change, T!Rest, T!Done, T!Loaded, T!Captured, T!Allowed
<1>1. SettingsTyped'
  <2>1. ram' \in Settings /\ nvs' \in Settings /\ registered' \in BOOLEAN
    BY DEF SettingsTyped, Settings
  <2> QED
    BY <2>1, OptionalHas DEF SettingsTyped, SavePcs
<1>2. Modes'
  BY DEF SettingsTyped, Settings, SavePcs, Modes, T!Both
<1>3. SavedSoFar'
  BY DEF SettingsTyped, Settings, SavePcs, SavedSoFar, Modes
<1>4. Told'
  BY DEF SettingsTyped, Settings, SavePcs, Told
<1> QED
  BY <1>1, <1>2, <1>3, <1>4

LEMMA SettingsStart == T!Init => SettingsInv
<1> SUFFICES ASSUME T!Init PROVE SettingsInv
  OBVIOUS
<1> USE OptionalHas DEF T!Init, T!Rest, T!Done
<1>1. SettingsTyped
  BY DEF SettingsTyped, Settings, SavePcs
<1>2. Modes /\ SavedSoFar /\ Told
  BY DEF Modes, SavedSoFar, Told
<1> QED
  BY <1>1, <1>2 DEF SettingsInv

LEMMA SettingsStep == SettingsInv /\ T!Next => SettingsInv'
<1> SUFFICES ASSUME SettingsInv, T!Next PROVE SettingsInv'
  OBVIOUS
<1>1. (\E a \in T!Optional(BOOLEAN), e \in T!Optional({0} \cup Exits), m \in T!Optional(Sizes) :
         T!Save(a, e, m)) => SettingsInv'
  BY SaveSettles
<1>2. (\E b \in BOOLEAN : T!Command(b)) => SettingsInv'
  BY CommandSettles
<1>3. T!Mirror \/ T!StoreAdv \/ T!StoreExit \/ T!MirrorExit \/ T!SetMtu \/ T!Answer => SettingsInv'
  BY MirrorSettles, StoreAdvSettles, StoreExitSettles, MirrorExitSettles, SetMtuSettles, AnswerSettles
<1>4. T!CommandStore \/ T!CommandApply \/ T!Kick \/ T!Build \/ T!Register \/ T!Boot => SettingsInv'
  BY CommandStoreSettles, CommandApplySettles, KickSettles, BuildSettles, RegisterSettles, BootSettles
<1> QED
  BY <1>1, <1>2, <1>3, <1>4 DEF T!Next

(* T!SettingsHold: the two exit-node modes exclude each other, a save that *)
(* answered ok is in NVS, and the control plane was told the switch as it  *)
(* is, whatever order saves, commands, failed writes and resets come in    *)
(* and however many there are.                                             *)
THEOREM SettingsTrue == ControlSpec => []SettingsHold
<1>1. ControlInit => SettingsInv
  BY SettingsStart DEF ControlInit
<1>2. SettingsInv /\ [ControlNext]_<<on, wv, vars, tv, s, lv, cv>> => SettingsInv'
  <2> SUFFICES ASSUME SettingsInv, [ControlNext]_<<on, wv, vars, tv, s, lv, cv>> PROVE SettingsInv'
    OBVIOUS
  <2>1. T!Next \/ UNCHANGED tv
    BY DEF ControlNext
  <2>2. CASE UNCHANGED tv
    BY <2>2 DEF tv, SettingsInv, SettingsTyped, Modes, SavedSoFar, Told, T!Both
  <2> QED
    BY <2>1, <2>2, SettingsStep
<1>3. SettingsInv => SettingsHold
  <2> SUFFICES ASSUME SettingsInv PROVE T!SettingsHold
    BY DEF SettingsHold
  <2>1. T!OneMode
    BY DEF SettingsInv, Modes, T!OneMode
  <2>2. T!OkMeansSaved
    BY DEF SettingsInv, SavedSoFar, T!OkMeansSaved
  <2>3. T!AdvertRegistered
    BY DEF SettingsInv, Told, T!AdvertRegistered
  <2> QED
    BY <2>1, <2>2, <2>3 DEF T!SettingsHold
<1> QED
  BY <1>1, <1>2, <1>3, PTL DEF ControlSpec

-----------------------------------------------------------------------------
(* Sessions, challenges and guesses.  The types of the three tables:       *)
SessionSet == [tok : Nat, exp : Nat]
GuardSet == [peer : Peers \cup {"none"}, fails : Nat, until : Nat, seen : Nat]
ChallengeSet == [peer : Peers \cup {"none"}, nonce : Nat, exp : Nat]
WebRecords == [kind : {"none", "legacy", "proof"}, pw : Passwords \cup {"none"}]

SessionTyped ==
  /\ now \in Nat \ {0} /\ webRecord \in WebRecords /\ window \in Nat
  /\ session \in [Slots -> SessionSet] /\ tokens \in Nat
  /\ opened \in [W!Tokens -> Passwords \cup {"none"}]
NonceTyped ==
  /\ challenge \in [Places -> ChallengeSet] /\ nonces \in Nat
  /\ redeemed \in [1 .. MaxNonces -> Nat]
GuardTyped == guard \in [Buckets -> GuardSet] /\ bad \in [Peers -> Nat]

(* No session has a token that was not drawn, and each that lives was      *)
(* opened with the password in force.                                      *)
SessionInv ==
  /\ \A i \in Slots : session[i].tok <= tokens
  /\ \A i \in Slots : session[i].tok # 0 => session[i].tok \in W!Tokens
  /\ W!SessionsFollowPassword

(* A nonce that waits is of one place and has not been redeemed, nor has   *)
(* one that was not drawn.                                                 *)
NonceInv ==
  /\ \A c \in Places : challenge[c].nonce <= nonces
  /\ \A c, d \in Places : challenge[c].nonce = challenge[d].nonce /\ challenge[c].nonce # 0 => c = d
  /\ \A c \in Places : challenge[c].nonce \in 1 .. MaxNonces => redeemed[challenge[c].nonce] = 0
  /\ \A n \in 1 .. MaxNonces : redeemed[n] <= 1 /\ (n > nonces => redeemed[n] = 0)

(* A peer has one bucket.  It counts what the peer did wrong, and while    *)
(* that is of this second, the third time shuts the peer out.              *)
Counts(g, p) == g.peer = p /\ bad[p] <= g.fails /\ (g.fails >= 3 => now < g.until)
GuardInv ==
  /\ \A b \in Buckets : guard[b].seen = 0 <=> guard[b].peer = "none"
  /\ \A b, c \in Buckets : guard[b].peer = guard[c].peer /\ guard[b].peer # "none" => b = c
  /\ \A p \in Peers : bad[p] <= 3
  /\ \A p \in Peers : bad[p] # 0 => \E b \in Buckets : Counts(guard[b], p)

SessionPart == SessionTyped /\ SessionInv
NoncePart == NonceTyped /\ NonceInv
GuardPart == GuardTyped /\ GuardInv
SignInInv == SessionPart /\ NoncePart /\ GuardPart

(* The loops of the tables find what they look for.                        *)
LEMMA FirstIsIn ==
  ASSUME NEW S \in SUBSET Nat, S # {}
  PROVE  W!First(S) \in S /\ \A y \in S : W!First(S) <= y
<1>1. PICK x \in S : \A y \in S : ~ (<<y, x>> \in OpToRel(<, Nat))
  BY NatLessThanWellFounded, WFMin
<1>2. \A y \in S : x <= y
  <2> SUFFICES ASSUME NEW y \in S PROVE x <= y
    OBVIOUS
  <2>1. ~ (<<y, x>> \in OpToRel(<, Nat))
    BY <1>1
  <2>2. x \in Nat /\ y \in Nat
    OBVIOUS
  <2>3. ~ (y < x)
    BY <2>1, <2>2 DEF OpToRel
  <2> QED BY <2>2, <2>3
<1> QED
  BY <1>2 DEF W!First

LEMMA Longest ==
  ASSUME GuardTyped
  PROVE  {b \in Buckets : \A c \in Buckets : guard[b].seen <= guard[c].seen} # {}
<1> DEFINE S == {guard[b].seen : b \in Buckets}
<1>1. S \in SUBSET Nat /\ S # {}
  <2>1. \A b \in Buckets : guard[b].seen \in Nat
    BY DEF GuardTyped, GuardSet
  <2>2. PICK b \in Buckets : TRUE
    BY SessionAssumption
  <2>3. guard[b].seen \in S
    OBVIOUS
  <2> QED
    BY <2>1, <2>3
<1> HIDE DEF S
<1>2. W!First(S) \in S /\ \A y \in S : W!First(S) <= y
  BY <1>1, FirstIsIn
<1>3. PICK b \in Buckets : guard[b].seen = W!First(S)
  BY <1>2 DEF S
<1>4. \A c \in Buckets : guard[b].seen <= guard[c].seen
  BY <1>2, <1>3 DEF S
<1> QED
  BY <1>4

(* login_guard_for finds the peer's own bucket, or one that only another   *)
(* peer can have.                                                          *)
LEMMA BucketIsOwn ==
  ASSUME GuardPart, NEW p \in Peers
  PROVE  /\ W!Bucket(p) \in Buckets
         /\ \A c \in Buckets : guard[c].peer = p => c = W!Bucket(p)
<1> DEFINE own == {b \in Buckets : guard[b].peer = p /\ guard[b].seen # 0}
           free == {b \in Buckets : guard[b].seen = 0}
           old == {b \in Buckets : \A c \in Buckets : guard[b].seen <= guard[c].seen}
<1>1. own \in SUBSET Nat /\ free \in SUBSET Nat /\ old \in SUBSET Nat /\ old # {}
  BY SessionAssumption, Longest DEF GuardPart
<1>2. own \subseteq Buckets /\ free \subseteq Buckets /\ old \subseteq Buckets
  OBVIOUS
<1>3. W!Bucket(p) = IF own # {} THEN W!First(own)
                    ELSE IF free # {} THEN W!First(free) ELSE W!First(old)
  BY DEF W!Bucket
<1>4. \A c \in Buckets : guard[c].peer = p => own = {c}
  <2> SUFFICES ASSUME NEW c \in Buckets, guard[c].peer = p PROVE own = {c}
    OBVIOUS
  <2>1. p # "none" /\ guard[c].seen # 0
    BY SessionAssumption DEF GuardPart, GuardInv
  <2>2. \A b \in Buckets : guard[b].peer = p => b = c
    BY <2>1 DEF GuardPart, GuardInv
  <2> QED
    BY <2>1, <2>2
<1> HIDE DEF own, free, old
<1>5. W!Bucket(p) \in Buckets
  BY <1>1, <1>2, <1>3, FirstIsIn
<1>6. \A c \in Buckets : guard[c].peer = p => c = W!Bucket(p)
  <2> SUFFICES ASSUME NEW c \in Buckets, guard[c].peer = p PROVE c = W!Bucket(p)
    OBVIOUS
  <2>1. own = {c}
    BY <1>4
  <2>2. W!First(own) \in own
    BY <2>1, <1>1, FirstIsIn
  <2> QED
    BY <2>1, <2>2, <1>3
<1> QED
  BY <1>5, <1>6

(* What login_guard_failed and login_guard_reject make of the bucket: it is  *)
(* the peer's, seen now, with the failures it had if it was the peer's.      *)
LEMMA SeenIsOwn ==
  ASSUME GuardPart, now \in Nat \ {0}, NEW p \in Peers
  PROVE  /\ W!Seen(p) \in GuardSet /\ W!Seen(p).peer = p /\ W!Seen(p).seen = now
         /\ bad[p] # 0 => Counts(W!Seen(p), p)
         /\ \A q \in Peers : W!Forgotten(p)[q] # 0 => 
              W!Forgotten(p)[q] = bad[q] /\ (q # p => \E b \in Buckets : b # W!Bucket(p) /\ Counts(guard[b], q))
         /\ W!Forgotten(p) \in [Peers -> Nat] /\ W!Forgotten(p)[p] = bad[p]
         /\ \A q \in Peers : W!Forgotten(p)[q] <= 3
<1> DEFINE g == guard[W!Bucket(p)]
<1>1. g \in GuardSet
  BY BucketIsOwn DEF GuardPart, GuardTyped
<1>2. /\ W!Seen(p) \in GuardSet /\ W!Seen(p).peer = p /\ W!Seen(p).seen = now
  BY <1>1 DEF W!Seen, GuardSet, W!NoGuard
<1>3. ASSUME bad[p] # 0 PROVE Counts(W!Seen(p), p)
  <2>1. PICK b \in Buckets : Counts(guard[b], p)
    BY <1>3 DEF GuardPart, GuardInv
  <2>2. b = W!Bucket(p)
    BY <2>1, BucketIsOwn DEF Counts
  <2>3. W!Seen(p).fails = g.fails /\ W!Seen(p).until = g.until
    BY <1>1, <2>1, <2>2 DEF W!Seen, GuardSet, Counts
  <2> QED
    BY <2>1, <2>2, <2>3, <1>2 DEF Counts
<1>4. W!Forgotten(p) \in [Peers -> Nat] /\ W!Forgotten(p)[p] = bad[p]
  BY DEF W!Forgotten, W!Evicted, GuardPart, GuardTyped
<1>5. \A q \in Peers : W!Forgotten(p)[q] <= 3
  BY DEF W!Forgotten, GuardPart, GuardInv
<1>6. ASSUME NEW q \in Peers, W!Forgotten(p)[q] # 0
      PROVE  W!Forgotten(p)[q] = bad[q] /\ (q # p => \E b \in Buckets : b # W!Bucket(p) /\ Counts(guard[b], q))
  <2>1. W!Forgotten(p)[q] = bad[q] /\ q \notin {guard[W!Bucket(p)].peer} \ {p}
    BY <1>6 DEF W!Forgotten, W!Evicted
  <2>2. PICK b \in Buckets : Counts(guard[b], q)
    BY <2>1, <1>6 DEF GuardPart, GuardInv
  <2> QED
    BY <2>1, <2>2 DEF Counts
<1> QED
  BY <1>2, <1>3, <1>4, <1>5, <1>6

(* A bucket of the peer with what it did wrong keeps the guard.            *)
LEMMA GuardPut ==
  ASSUME GuardPart, now \in Nat \ {0}, NEW p \in Peers, NEW g \in GuardSet, NEW k \in Nat, k <= 3,
         now' = now, guard' = [guard EXCEPT ![W!Bucket(p)] = g],
         bad' = [W!Forgotten(p) EXCEPT ![p] = k],
         g.seen = 0 <=> g.peer = "none", g.peer \in {p, "none"},
         k # 0 => g.peer = p /\ k <= g.fails /\ (g.fails >= 3 => now < g.until)
  PROVE  GuardPart'
<1> USE SessionAssumption
<1>0. W!Bucket(p) \in Buckets /\ \A c \in Buckets : guard[c].peer = p => c = W!Bucket(p)
  BY BucketIsOwn
<1>1. GuardTyped'
  BY <1>0, SeenIsOwn DEF GuardPart, GuardTyped
<1>2. \A b \in Buckets : guard'[b] = IF b = W!Bucket(p) THEN g ELSE guard[b]
  BY DEF GuardPart, GuardTyped
<1>3. \A b \in Buckets : guard'[b].seen = 0 <=> guard'[b].peer = "none"
  BY <1>2 DEF GuardPart, GuardInv
<1>4. \A b, c \in Buckets : guard'[b].peer = guard'[c].peer /\ guard'[b].peer # "none" => b = c
  BY <1>0, <1>2 DEF GuardPart, GuardInv
<1>5. \A q \in Peers : bad'[q] = IF q = p THEN k ELSE W!Forgotten(p)[q]
  BY SeenIsOwn
<1>6. \A q \in Peers : bad'[q] <= 3
  BY <1>5, SeenIsOwn
<1>7. ASSUME NEW q \in Peers, bad'[q] # 0
      PROVE  \E b \in Buckets : Counts(guard[b], q)'
  <2>1. CASE q = p
    <3>1. guard'[W!Bucket(p)] = g /\ bad'[p] = k /\ k # 0
      BY <1>0, <1>2, <1>5, <1>7, <2>1
    <3>2. g.peer = p /\ k <= g.fails /\ (g.fails >= 3 => now' < g.until)
      BY <3>1
    <3>3. PICK b \in Buckets : b = W!Bucket(p)
      BY <1>0
    <3>4. guard'[b] = g
      BY <3>1, <3>3
    <3>5. Counts(guard[b], p)'
      BY <3>1, <3>2, <3>4 DEF Counts
    <3> QED
      BY <2>1, <3>5
  <2>2. CASE q # p
    <3>1. W!Forgotten(p)[q] # 0 /\ bad'[q] = W!Forgotten(p)[q]
      BY <2>2, <1>5, <1>7
    <3>2. PICK b \in Buckets : b # W!Bucket(p) /\ Counts(guard[b], q)
      BY <2>2, <3>1, SeenIsOwn
    <3>3. bad'[q] = bad[q]
      BY <3>1, SeenIsOwn
    <3> QED
      BY <3>2, <3>3, <1>2 DEF Counts
  <2> QED
    BY <2>1, <2>2
<1>8. GuardInv'
  BY <1>3, <1>4, <1>6, <1>7 DEF GuardInv
<1> QED
  BY <1>1, <1>8 DEF GuardPart

LEMMA GuardTouched ==
  ASSUME GuardPart, now \in Nat \ {0}, NEW p \in Peers, now' = now,
         guard' = W!Touched(p), bad' = W!Forgotten(p)
  PROVE  GuardPart'
<1> DEFINE g == W!Seen(p)
<1>1. g \in GuardSet /\ g.peer = p /\ g.seen = now /\ (bad[p] # 0 => Counts(g, p))
  BY SeenIsOwn
<1>2. bad' = [W!Forgotten(p) EXCEPT ![p] = bad[p]] /\ bad[p] \in Nat /\ bad[p] <= 3
  BY SeenIsOwn DEF GuardPart, GuardTyped, GuardInv
<1>3. guard' = [guard EXCEPT ![W!Bucket(p)] = g]
  BY DEF W!Touched
<1> HIDE DEF g
<1>4. g.seen = 0 <=> g.peer = "none"
  BY <1>1, SessionAssumption
<1>5. bad[p] # 0 => g.peer = p /\ bad[p] <= g.fails /\ (g.fails >= 3 => now < g.until)
  BY <1>1 DEF Counts
<1> QED
  BY <1>1, <1>2, <1>3, <1>4, <1>5, GuardPut

(* From the third failure on the peer is shut out beyond this second.      *)
LEMMA GuardFailed ==
  ASSUME GuardPart, now \in Nat \ {0}, NEW p \in Peers, now' = now, ~W!Rejected(p),
         guard' = W!Failed(p), bad' = [W!Forgotten(p) EXCEPT ![p] = @ + 1]
  PROVE  GuardPart'
<1> DEFINE s0 == W!Seen(p)
           d == W!Delay(s0.fails + 1)
           g == [s0 EXCEPT !.fails = @ + 1, !.until = IF d = 0 THEN @ ELSE now + d]
<1>1. s0 \in GuardSet /\ s0.peer = p /\ s0.seen = now /\ (bad[p] # 0 => Counts(s0, p))
  BY SeenIsOwn
<1>2. d \in Nat /\ (s0.fails >= 2 => d # 0)
  <2> DEFINE f == s0.fails + 1
  <2>1. f \in Nat /\ s0.fails \in Nat
    BY <1>1 DEF GuardSet
  <2> HIDE DEF f, s0
  <2>2. d = W!Delay(f)
    BY DEF f
  <2>3. f \in 3 .. 8 => <<1, 2, 4, 8, 16, 32>>[f - 2] \in 1 .. 32
    <3>1. f \in 3 .. 8 => f = 3 \/ f = 4 \/ f = 5 \/ f = 6 \/ f = 7 \/ f = 8
      BY <2>1
    <3> QED
      BY <2>1, <3>1
  <2>4. W!Delay(f) \in Nat /\ (f >= 3 => W!Delay(f) # 0)
    BY <2>1, <2>3 DEF W!Delay
  <2> QED
    BY <2>1, <2>2, <2>4 DEF f
<1>3. guard' = [guard EXCEPT ![W!Bucket(p)] = g]
  BY DEF W!Failed
<1>4. bad' = [W!Forgotten(p) EXCEPT ![p] = bad[p] + 1] /\ bad[p] \in Nat
  BY SeenIsOwn DEF GuardPart, GuardTyped
<1>5. s0.until <= now
  BY <1>1 DEF W!Rejected, GuardSet
<1>6. bad[p] # 0 => bad[p] <= s0.fails /\ s0.fails < 3
  BY <1>1, <1>5 DEF Counts, GuardSet
<1> HIDE DEF s0, d
<1>7. g \in GuardSet /\ g.peer = p /\ g.seen = now /\ g.fails = s0.fails + 1
      /\ g.until = IF d = 0 THEN s0.until ELSE now + d
  <2>1. s0.fails + 1 \in Nat /\ (IF d = 0 THEN s0.until ELSE now + d) \in Nat
    BY <1>1, <1>2 DEF GuardSet
  <2> QED
    BY <2>1, <1>1 DEF GuardSet
<1>8. bad[p] + 1 <= 3 /\ bad[p] + 1 <= g.fails
  BY <1>1, <1>4, <1>6, <1>7 DEF GuardSet
<1>9. g.fails >= 3 => now < g.until
  BY <1>1, <1>2, <1>7 DEF GuardSet
<1> HIDE DEF g
<1>10. g.seen = 0 <=> g.peer = "none"
  BY <1>7, SessionAssumption
<1> DEFINE k == bad[p] + 1
<1>11. /\ k \in Nat /\ k <= 3 /\ bad' = [W!Forgotten(p) EXCEPT ![p] = k]
       /\ g.peer \in {p, "none"} /\ g \in GuardSet
       /\ k # 0 => g.peer = p /\ k <= g.fails /\ (g.fails >= 3 => now < g.until)
  <2>1. k \in Nat /\ k <= 3 /\ k <= g.fails
    BY <1>4, <1>8
  <2>2. g \in GuardSet /\ g.peer = p /\ (g.fails >= 3 => now < g.until)
    BY <1>7, <1>9
  <2>3. bad' = [W!Forgotten(p) EXCEPT ![p] = k]
    BY <1>4
  <2> HIDE DEF k, g
  <2> QED
    BY <2>1, <2>2, <2>3
<1> HIDE DEF k
<1> QED
  BY <1>3, <1>10, <1>11, GuardPut

LEMMA GuardPassed ==
  ASSUME GuardPart, now \in Nat \ {0}, NEW p \in Peers, now' = now, W!Pass(p)
  PROVE  GuardPart'
<1>1. W!NoGuard \in GuardSet /\ W!NoGuard.seen = 0 /\ W!NoGuard.peer = "none"
  BY DEF W!NoGuard, GuardSet
<1> QED
  BY <1>1, GuardPut, 0 \in Nat, 0 <= 3 DEF W!Pass

(* auth_challenge_handler: a nonce of its own, in whichever place.         *)
LEMMA NonceIssued ==
  ASSUME NoncePart, now \in Nat, NEW p \in Peers, nonces < MaxNonces, nonces' = nonces + 1,
         challenge' = [challenge EXCEPT ![W!Place] = [peer |-> p, nonce |-> nonces', exp |-> now + Ttl]],
         redeemed' = redeemed
  PROVE  NoncePart'
<1> USE SessionAssumption
<1> DEFINE new == [peer |-> p, nonce |-> nonces + 1, exp |-> now + Ttl]
<1>1. new \in ChallengeSet /\ new.nonce = nonces + 1 /\ nonces \in Nat
  BY DEF ChallengeSet, NoncePart, NonceTyped
<1>2. challenge' = [challenge EXCEPT ![W!Place] = new]
  OBVIOUS
<1> HIDE DEF new
<1>3. NonceTyped'
  <2>1. challenge' \in [Places -> ChallengeSet]
    BY <1>1, <1>2 DEF NoncePart, NonceTyped
  <2> QED
    BY <1>1, <2>1 DEF NoncePart, NonceTyped
<1>4. \A c \in Places : challenge'[c] = IF c = W!Place THEN new ELSE challenge[c]
  BY <1>2 DEF NoncePart, NonceTyped
<1>5. \A c \in Places : challenge[c].nonce \in Nat /\ challenge[c].nonce <= nonces
  BY DEF NoncePart, NonceTyped, NonceInv, ChallengeSet
<1>6. \A c \in Places : challenge'[c].nonce <= nonces'
  BY <1>1, <1>4, <1>5
<1>7. \A c, d \in Places : challenge'[c].nonce = challenge'[d].nonce /\ challenge'[c].nonce # 0 => c = d
  BY <1>1, <1>4, <1>5 DEF NoncePart, NonceInv
<1>8. \A c \in Places : challenge'[c].nonce \in 1 .. MaxNonces => redeemed'[challenge'[c].nonce] = 0
  BY <1>1, <1>4 DEF NoncePart, NonceInv
<1>9. \A n \in 1 .. MaxNonces : redeemed'[n] <= 1 /\ (n > nonces' => redeemed'[n] = 0)
  BY <1>1 DEF NoncePart, NonceInv
<1> QED
  BY <1>3, <1>6, <1>7, <1>8, <1>9 DEF NoncePart, NonceInv

(* login_challenge_consume: the place that had the nonce has it no more.   *)
LEMMA NonceConsumed ==
  ASSUME NoncePart, NEW p \in Peers, NEW n \in 1 .. MaxNonces, W!Matching(p, n) # {}
  PROVE  /\ W!First(W!Matching(p, n)) \in Places
         /\ challenge[W!First(W!Matching(p, n))].nonce = n /\ redeemed[n] = 0 /\ n <= nonces
<1> USE SessionAssumption
<1>1. W!Matching(p, n) \in SUBSET Nat
  BY DEF W!Matching
<1>2. W!First(W!Matching(p, n)) \in W!Matching(p, n)
  BY <1>1, FirstIsIn
<1> QED
  BY <1>2 DEF W!Matching, NoncePart, NonceInv

LEMMA NonceSpent ==
  ASSUME NoncePart, NEW p \in Peers, NEW n \in 1 .. MaxNonces, W!Matching(p, n) # {},
         challenge' = W!Consumed(W!First(W!Matching(p, n))), nonces' = nonces,
         redeemed' \in {redeemed, [redeemed EXCEPT ![n] = @ + 1]}
  PROVE  NoncePart'
<1> USE SessionAssumption
<1> DEFINE f == W!First(W!Matching(p, n))
<1>1. f \in Places /\ challenge[f].nonce = n /\ redeemed[n] = 0 /\ n <= nonces
  BY NonceConsumed
<1>2. challenge' = [challenge EXCEPT ![f] = W!NoChallenge]
  BY DEF W!Consumed
<1> HIDE DEF f
<1>3. W!NoChallenge \in ChallengeSet /\ W!NoChallenge.nonce = 0
  BY DEF W!NoChallenge, ChallengeSet
<1>4. NonceTyped'
  <2>1. challenge' \in [Places -> ChallengeSet]
    BY <1>2, <1>3 DEF NoncePart, NonceTyped
  <2>2. redeemed' \in [1 .. MaxNonces -> Nat]
    BY DEF NoncePart, NonceTyped
  <2> QED
    BY <2>1, <2>2 DEF NoncePart, NonceTyped
<1>5. \A c \in Places : challenge'[c] = IF c = f THEN W!NoChallenge ELSE challenge[c]
  BY <1>2 DEF NoncePart, NonceTyped
<1>6. \A m \in 1 .. MaxNonces : redeemed'[m] = redeemed[m] \/ (m = n /\ redeemed'[m] = 1)
  BY <1>1 DEF NoncePart, NonceTyped
<1>7. n # 0 /\ nonces \in Nat
  BY DEF NoncePart, NonceTyped
<1>8. \A c \in Places : challenge'[c].nonce <= nonces'
  BY <1>3, <1>5, <1>7 DEF NoncePart, NonceInv
<1>9. \A c, d \in Places : challenge'[c].nonce = challenge'[d].nonce /\ challenge'[c].nonce # 0 => c = d
  BY <1>3, <1>5 DEF NoncePart, NonceInv
<1>10. ASSUME NEW c \in Places, challenge'[c].nonce \in 1 .. MaxNonces
       PROVE  redeemed'[challenge'[c].nonce] = 0
  <2>1. c # f /\ challenge'[c] = challenge[c]
    BY <1>3, <1>5, <1>10
  <2>2. challenge[c].nonce # n
    BY <1>1, <1>7, <2>1 DEF NoncePart, NonceInv
  <2> QED
    BY <1>6, <1>10, <2>1, <2>2 DEF NoncePart, NonceInv
<1>11. \A m \in 1 .. MaxNonces : redeemed'[m] <= 1 /\ (m > nonces' => redeemed'[m] = 0)
  BY <1>1, <1>6, <1>7 DEF NoncePart, NonceInv
<1> QED
  BY <1>4, <1>8, <1>9, <1>10, <1>11 DEF NoncePart, NonceInv

(* session_create, in whichever slot: for who verified, or at the setup of *)
(* a device that had no password and so no session that lives.             *)
LEMMA SessionCreated ==
  ASSUME SessionPart, NEW pw \in Passwords, W!Create(pw), now' = now, window' = window, cliChanged' = cliChanged,
         \/ W!Verifies(pw) /\ webRecord' \in {webRecord, [webRecord EXCEPT !.kind = "proof"]}
         \/ ~W!IsSet /\ webRecord' = W!Stored(pw)
  PROVE  SessionPart'
<1> USE SessionAssumption
<1> DEFINE new == [tok |-> tokens + 1, exp |-> W!Expiry(window)]
<1>1. new \in SessionSet /\ new.tok = tokens + 1 /\ tokens + 1 \in W!Tokens /\ tokens \in Nat
  BY DEF SessionSet, SessionPart, SessionTyped, W!Expiry, W!Forever, W!Create, W!Tokens
<1>2. session' = [session EXCEPT ![W!NewSlot] = new] /\ tokens' = tokens + 1
      /\ opened' = [opened EXCEPT ![tokens + 1] = pw]
  BY DEF W!Create
<1> HIDE DEF new
<1>3. webRecord' \in WebRecords /\ webRecord'.pw = pw /\ webRecord'.kind # "none"
  BY DEF SessionPart, SessionTyped, WebRecords, W!Verifies, W!IsSet, W!Stored
<1>4. SessionTyped'
  <2>1. session' \in [Slots -> SessionSet]
    BY <1>1, <1>2 DEF SessionPart, SessionTyped
  <2>2. opened' \in [W!Tokens -> Passwords \cup {"none"}]
    BY <1>2 DEF SessionPart, SessionTyped
  <2>3. tokens' \in Nat /\ now' \in Nat \ {0} /\ window' \in Nat
    BY <1>1, <1>2 DEF SessionPart, SessionTyped
  <2> QED
    BY <1>3, <2>1, <2>2, <2>3, W!Tokens' = W!Tokens DEF SessionTyped, W!Tokens
<1>5. \A i \in Slots : session'[i] = new \/ session'[i] = session[i]
  BY <1>2 DEF SessionPart, SessionTyped
<1>6. \A i \in Slots : session[i].tok \in Nat /\ session[i].tok <= tokens
                       /\ (session[i].tok # 0 => session[i].tok \in W!Tokens)
  BY DEF SessionPart, SessionTyped, SessionInv, SessionSet
<1>7. \A i \in Slots : session'[i].tok <= tokens' /\ (session'[i].tok # 0 => session'[i].tok \in W!Tokens)
  BY <1>1, <1>2, <1>5, <1>6
<1>8. W!SessionsFollowPassword'
  <2> SUFFICES ASSUME ~cliChanged, NEW i \in Slots, W!Live(i)'
               PROVE  W!IsSet' /\ opened'[session'[i].tok] = webRecord'.pw
    BY DEF W!SessionsFollowPassword
  <2>1. CASE session'[i] = new
    BY <2>1, <1>1, <1>2, <1>3 DEF W!IsSet, SessionPart, SessionTyped
  <2>2. CASE session'[i] = session[i]
    <3>1. W!Live(i)
      BY <2>2 DEF W!Live
    <3>2. W!IsSet /\ opened[session[i].tok] = webRecord.pw
      BY <3>1 DEF SessionPart, SessionInv, W!SessionsFollowPassword
    <3>3. pw = webRecord.pw
      BY <3>2 DEF W!Verifies
    <3>4. session[i].tok # tokens + 1 /\ session[i].tok \in W!Tokens
      BY <1>1, <1>6, <3>1 DEF W!Live
    <3> QED
      BY <2>2, <3>2, <3>3, <3>4, <1>2, <1>3 DEF W!IsSet, SessionPart, SessionTyped
  <2> QED
    BY <1>5, <2>1, <2>2
<1> QED
  BY <1>4, <1>7, <1>8, W!Tokens' = W!Tokens DEF SessionPart, SessionInv, W!Tokens

(* Whatever else is done to the table, a session that lives afterwards did  *)
(* so before, with the same token, and the password is as it was.           *)
LEMMA SessionsKept ==
  ASSUME SessionPart, UNCHANGED <<tokens, opened>>, now' \in Nat \ {0}, now <= now',
         window' \in Nat, cliChanged' = cliChanged,
         session' \in [Slots -> SessionSet],
         \A i \in Slots : session'[i].tok \in {session[i].tok, 0},
         \A i \in Slots : session'[i].tok # 0 /\ now' < session'[i].exp => W!Live(i),
         webRecord' \in {webRecord, [webRecord EXCEPT !.kind = "proof"]},
         webRecord' # webRecord => W!IsSet
  PROVE  SessionPart'
<1>1. webRecord' \in WebRecords /\ webRecord'.pw = webRecord.pw /\ (W!IsSet => W!IsSet')
  BY DEF SessionPart, SessionTyped, WebRecords, W!IsSet
<1>2. SessionTyped'
  BY <1>1 DEF SessionPart, SessionTyped, W!Tokens
<1>3. \A i \in Slots : session[i].tok \in Nat /\ tokens \in Nat
  BY DEF SessionPart, SessionTyped, SessionSet
<1>4. \A i \in Slots : session'[i].tok <= tokens' /\ (session'[i].tok # 0 => session'[i].tok \in W!Tokens)
  BY <1>3 DEF SessionPart, SessionInv
<1>5. W!SessionsFollowPassword'
  <2> SUFFICES ASSUME ~cliChanged, NEW i \in Slots, W!Live(i)'
               PROVE  W!IsSet' /\ opened'[session'[i].tok] = webRecord'.pw
    BY DEF W!SessionsFollowPassword
  <2>1. W!Live(i) /\ session'[i].tok = session[i].tok
    BY DEF W!Live
  <2> QED
    BY <1>1, <2>1 DEF SessionPart, SessionInv, W!SessionsFollowPassword
<1> QED
  BY <1>2, <1>4, <1>5, W!Tokens' = W!Tokens DEF SessionPart, SessionInv, W!Tokens

(* session_find slides the window of the session it finds.                 *)
LEMMA SlidKeeps ==
  ASSUME SessionPart, NEW t \in W!Tokens, session' = W!Slid(t)
  PROVE  /\ session' \in [Slots -> SessionSet]
         /\ \A i \in Slots : session'[i].tok \in {session[i].tok, 0}
         /\ \A i \in Slots : session'[i].tok # 0 /\ now < session'[i].exp => W!Live(i)
<1>1. W!Expiry(window) \in Nat
  BY DEF W!Expiry, W!Forever, SessionPart, SessionTyped
<1>2. \A i \in Slots : session[i] \in SessionSet
  BY DEF SessionPart, SessionTyped
<1>3. \A i \in Slots : \/ session'[i] = session[i]
                       \/ W!Live(i) /\ session'[i] = [session[i] EXCEPT !.exp = W!Expiry(window)]
  BY DEF W!Slid, W!Of
<1>4. session' = [i \in Slots |-> session'[i]]
  BY DEF W!Slid, SessionPart, SessionTyped
<1> HIDE DEF SessionPart
<1>5. \A i \in Slots : session'[i] \in SessionSet /\ session'[i].tok = session[i].tok
  BY <1>1, <1>2, <1>3 DEF SessionSet
<1> QED
  BY <1>3, <1>4, <1>5 DEF W!Live

LEMMA SessionsSame ==
  ASSUME SessionPart, UNCHANGED <<now, session, tokens, opened, cliChanged, window, webRecord>>
  PROVE  SessionPart'
BY DEF SessionPart, SessionTyped, SessionInv, W!Tokens, W!SessionsFollowPassword, W!Live, W!IsSet

LEMMA SessionsCleared ==
  ASSUME SessionPart, UNCHANGED <<now, tokens, opened, cliChanged, window>>,
         webRecord' \in WebRecords, session' = W!Cleared
  PROVE  SessionPart'
<1>1. W!NoSession \in SessionSet /\ W!NoSession.tok = 0
  BY DEF W!NoSession, SessionSet
<1>2. \A i \in Slots : session'[i] = W!NoSession
  BY DEF W!Cleared
<1>3. session' \in [Slots -> SessionSet]
  BY <1>1 DEF W!Cleared
<1> QED
  BY <1>1, <1>2, <1>3 DEF SessionPart, SessionTyped, SessionInv, W!Tokens, W!SessionsFollowPassword, W!Live

LEMMA NoncesSame ==
  ASSUME NoncePart, UNCHANGED <<challenge, nonces, redeemed>>
  PROVE  NoncePart'
BY DEF NoncePart, NonceTyped, NonceInv

LEMMA GuardSame ==
  ASSUME GuardPart, UNCHANGED <<guard, bad, now>>
  PROVE  GuardPart'
BY DEF GuardPart, GuardTyped, GuardInv, Counts

-----------------------------------------------------------------------------
(* One lemma per handler.                                                  *)
LEMMA RejectSigns == ASSUME SignInInv, NEW p \in Peers, W!Reject(p) PROVE SignInInv'
<1>1. now \in Nat \ {0}
  BY DEF SignInInv, SessionPart, SessionTyped
<1> QED
  BY <1>1, SessionsSame, NoncesSame, GuardTouched DEF SignInInv, W!Reject, W!secrets, W!drawn

LEMMA FailSigns ==
  ASSUME SignInInv, NEW p \in Peers, W!Fail(p), ~W!Rejected(p), UNCHANGED <<tokens, opened>>
  PROVE  SessionPart' /\ GuardPart'
<1>1. now \in Nat \ {0}
  BY DEF SignInInv, SessionPart, SessionTyped
<1> QED
  BY <1>1, SessionsSame, GuardFailed DEF SignInInv, W!Fail, W!secrets

LEMMA ChallengeSigns == ASSUME SignInInv, NEW p \in Peers, W!Challenge(p) PROVE SignInInv'
<1>1. now \in Nat \ {0}
  BY DEF SignInInv, SessionPart, SessionTyped
<1>2. SessionPart'
  BY SessionsSame DEF SignInInv, W!Challenge, W!secrets
<1>3. GuardPart'
  BY <1>1, GuardTouched DEF SignInInv, W!Challenge
<1>4. NoncePart'
  BY <1>1, NonceIssued, NoncesSame DEF SignInInv, W!Challenge
<1> QED
  BY <1>2, <1>3, <1>4 DEF SignInInv

LEMMA LoginProofSigns ==
  ASSUME SignInInv, NEW p \in Peers, NEW n \in 1 .. MaxNonces, NEW pw \in Passwords, W!LoginProof(p, n, pw)
  PROVE  SignInInv'
<1>1. now \in Nat \ {0} /\ NoncePart /\ GuardPart /\ SessionPart
  BY DEF SignInInv, SessionPart, SessionTyped
<1>2. CASE W!Matching(p, n) # {} /\ W!Supported /\ W!Verifies(pw)
  <2>1. SessionPart'
    BY <1>1, <1>2, SessionCreated DEF W!LoginProof, W!secrets
  <2>2. GuardPart'
    BY <1>1, <1>2, GuardPassed DEF W!LoginProof
  <2>3. NoncePart'
    BY <1>1, <1>2, NonceSpent DEF W!LoginProof
  <2> QED
    BY <2>1, <2>2, <2>3 DEF SignInInv
<1>3. CASE ~(W!Matching(p, n) # {} /\ W!Supported /\ W!Verifies(pw))
  <2>1. W!Fail(p) /\ ~W!Rejected(p) /\ UNCHANGED <<tokens, nonces, opened, redeemed>>
    BY <1>3 DEF W!LoginProof, W!drawn
  <2>2. SessionPart' /\ GuardPart'
    BY <2>1, FailSigns
  <2>3. NoncePart'
    <3>1. CASE W!Matching(p, n) = {}
      BY <1>1, <2>1, <3>1, NoncesSame DEF W!LoginProof
    <3>2. CASE W!Matching(p, n) # {}
      BY <1>1, <2>1, <3>2, NonceSpent DEF W!LoginProof
    <3> QED
      BY <3>1, <3>2
  <2> QED
    BY <2>2, <2>3 DEF SignInInv
<1> QED
  BY <1>2, <1>3

LEMMA LoginPlainSigns ==
  ASSUME SignInInv, NEW p \in Peers, NEW pw \in Passwords, W!LoginPlain(p, pw) PROVE SignInInv'
<1>1. now \in Nat \ {0} /\ NoncePart /\ GuardPart /\ SessionPart
  BY DEF SignInInv, SessionPart, SessionTyped
<1>2. CASE W!Supported
  BY <1>2, RejectSigns DEF W!LoginPlain
<1>3. CASE ~W!Supported /\ W!Verifies(pw)
  <2>1. SessionPart'
    BY <1>1, <1>3, SessionCreated DEF W!LoginPlain
  <2>2. GuardPart'
    BY <1>1, <1>3, GuardPassed DEF W!LoginPlain
  <2>3. NoncePart'
    BY <1>1, <1>3, NoncesSame DEF W!LoginPlain
  <2> QED
    BY <2>1, <2>2, <2>3 DEF SignInInv
<1>4. CASE ~W!Supported /\ ~W!Verifies(pw)
  <2>1. W!Fail(p) /\ ~W!Rejected(p) /\ UNCHANGED <<challenge, tokens, nonces, opened, redeemed>>
    BY <1>4 DEF W!LoginPlain, W!drawn
  <2> QED
    BY <1>1, <2>1, FailSigns, NoncesSame DEF SignInInv
<1> QED
  BY <1>2, <1>3, <1>4

LEMMA SetupSigns == ASSUME SignInInv, NEW pw \in Passwords, W!Setup(pw) PROVE SignInInv'
<1>1. SessionPart'
  BY SessionCreated DEF SignInInv, W!Setup
<1>2. GuardPart' /\ NoncePart'
  BY GuardSame, NoncesSame DEF SignInInv, W!Setup
<1> QED
  BY <1>1, <1>2 DEF SignInInv

LEMMA ChangeSigns ==
  ASSUME SignInInv, NEW t \in W!Tokens, NEW p \in Peers, NEW old \in Passwords, NEW pw \in Passwords,
         W!ChangePassword(t, p, old, pw)
  PROVE  SignInInv'
<1>1. now \in Nat \ {0} /\ NoncePart /\ GuardPart /\ SessionPart
  BY DEF SignInInv, SessionPart, SessionTyped
<1>2. NoncePart'
  BY <1>1, NoncesSame DEF W!ChangePassword, W!drawn
<1>3. UNCHANGED <<now, gate, window, tokens, opened, cliChanged>>
  BY DEF W!ChangePassword, W!drawn, W!secrets
<1>4. now <= now /\ window \in Nat
  BY <1>1 DEF SessionPart, SessionTyped
<1>5. CASE W!Verifies(old)
  <2>1. CASE webRecord' = W!Stored(pw) /\ session' = W!Cleared /\ W!Pass(p)
    <3>1. webRecord' \in WebRecords
      BY <2>1 DEF W!Stored, WebRecords
    <3>2. SessionPart'
      BY <1>1, <1>3, <2>1, <3>1, SessionsCleared
    <3>3. GuardPart'
      BY <1>1, <1>3, <2>1, GuardPassed
    <3> QED
      BY <1>2, <3>2, <3>3 DEF SignInInv
  <2>2. CASE /\ webRecord' \in {webRecord, [webRecord EXCEPT !.kind = "proof"]}
             /\ session' = W!Slid(t) /\ guard' = W!Touched(p) /\ bad' = W!Forgotten(p)
    <3>1. SessionPart'
      BY <1>1, <1>3, <1>4, <1>5, <2>2, SlidKeeps, SessionsKept DEF W!Verifies
    <3>2. GuardPart'
      BY <1>1, <1>3, <2>2, GuardTouched
    <3> QED
      BY <1>2, <3>1, <3>2 DEF SignInInv
  <2> QED
    BY <1>5, <2>1, <2>2 DEF W!ChangePassword
<1>6. CASE ~W!Verifies(old)
  <2>1. session' = W!Slid(t) /\ guard' = W!Failed(p) /\ bad' = [W!Forgotten(p) EXCEPT ![p] = @ + 1]
        /\ webRecord' = webRecord /\ ~W!Rejected(p)
    BY <1>6 DEF W!ChangePassword, W!secrets
  <2>2. SessionPart'
    BY <1>1, <1>3, <1>4, <2>1, SlidKeeps, SessionsKept
  <2>3. GuardPart'
    BY <1>1, <1>3, <2>1, GuardFailed
  <2> QED
    BY <1>2, <2>2, <2>3 DEF SignInInv
<1> QED
  BY <1>5, <1>6

LEMMA ClearSigns == ASSUME SignInInv, NEW t \in W!Tokens, W!ClearPassword(t) PROVE SignInInv'
<1>1. webRecord' \in WebRecords
  BY DEF W!ClearPassword, W!NoPassword, WebRecords, SignInInv, SessionPart, SessionTyped
<1>2. SessionPart'
  BY <1>1, SessionsCleared DEF SignInInv, W!ClearPassword, W!drawn
<1>3. GuardPart' /\ NoncePart'
  BY GuardSame, NoncesSame DEF SignInInv, W!ClearPassword, W!drawn
<1> QED
  BY <1>2, <1>3 DEF SignInInv

LEMMA CliSigns ==
  ASSUME SignInInv, NEW pw \in Passwords \cup {"none"}, W!CliPassword(pw) PROVE SignInInv'
<1>1. webRecord' \in WebRecords /\ cliChanged' = TRUE
  BY DEF W!CliPassword, W!NoPassword, W!Stored, WebRecords
<1>2. SessionPart'
  BY <1>1 DEF SignInInv, W!CliPassword, W!drawn, SessionPart, SessionTyped, SessionInv, W!Tokens,
    W!SessionsFollowPassword
<1>3. GuardPart' /\ NoncePart'
  BY GuardSame, NoncesSame DEF SignInInv, W!CliPassword, W!drawn
<1> QED
  BY <1>2, <1>3 DEF SignInInv

(* Request, SaveGate, SaveWindow and Logout touch only the session table.  *)
LEMMA TableSigns ==
  ASSUME SignInInv, UNCHANGED <<now, webRecord, guard, challenge, W!drawn, bad, cliChanged>>, window' \in Nat,
         session' \in [Slots -> SessionSet],
         \A i \in Slots : session'[i].tok \in {session[i].tok, 0},
         \A i \in Slots : session'[i].tok # 0 /\ now < session'[i].exp => W!Live(i)
  PROVE  SignInInv'
<1>1. now \in Nat \ {0} /\ now <= now
  BY DEF SignInInv, SessionPart, SessionTyped
<1>2. SessionPart'
  BY <1>1, SessionsKept DEF SignInInv, W!drawn
<1>3. GuardPart' /\ NoncePart'
  BY GuardSame, NoncesSame DEF SignInInv, W!drawn
<1> QED
  BY <1>2, <1>3 DEF SignInInv

LEMMA RequestSigns == ASSUME SignInInv, NEW t \in W!Tokens, W!Request(t) PROVE SignInInv'
BY TableSigns, SlidKeeps DEF W!Request, W!secrets, SignInInv, SessionPart, SessionTyped

LEMMA GateSigns == ASSUME SignInInv, NEW t \in W!Tokens, NEW b \in BOOLEAN, W!SaveGate(t, b) PROVE SignInInv'
BY TableSigns, SlidKeeps DEF W!SaveGate, SignInInv, SessionPart, SessionTyped

LEMMA LogoutSigns == ASSUME SignInInv, NEW t \in W!Tokens, W!Logout(t) PROVE SignInInv'
<1>1. W!NoSession \in SessionSet /\ W!NoSession.tok = 0
  BY DEF W!NoSession, SessionSet
<1>2. session' \in [Slots -> SessionSet]
  BY <1>1 DEF W!Logout, SignInInv, SessionPart, SessionTyped
<1>3. \A i \in Slots : session'[i] = W!NoSession \/ session'[i] = session[i]
  BY DEF W!Logout
<1>4. /\ \A i \in Slots : session'[i].tok \in {session[i].tok, 0}
      /\ \A i \in Slots : session'[i].tok # 0 /\ now < session'[i].exp => W!Live(i)
  BY <1>1, <1>3 DEF W!Live
<1> QED
  BY <1>2, <1>4, TableSigns DEF W!Logout, W!secrets, SignInInv, SessionPart, SessionTyped

LEMMA WindowSigns == ASSUME SignInInv, NEW t \in W!Tokens, NEW w \in Timeouts, W!SaveWindow(t, w) PROVE SignInInv'
<1>1. W!Expiry(w) \in Nat /\ w \in Nat
  BY SessionAssumption DEF W!Expiry, W!Forever, SignInInv, SessionPart, SessionTyped
<1>2. \A i \in Slots : session[i] \in SessionSet
  BY DEF SignInInv, SessionPart, SessionTyped
<1>3. \A i \in Slots : session'[i] = IF W!Live(i) THEN [session[i] EXCEPT !.exp = W!Expiry(w)] ELSE session[i]
  BY DEF W!SaveWindow, W!Extended
<1>4. \A i \in Slots : session'[i] \in SessionSet /\ session'[i].tok = session[i].tok
  BY <1>1, <1>2, <1>3 DEF SessionSet
<1>5. session' \in [Slots -> SessionSet]
  BY <1>4 DEF W!SaveWindow, W!Extended
<1>6. \A i \in Slots : session'[i].tok # 0 /\ now < session'[i].exp => W!Live(i)
  BY <1>3, <1>4 DEF W!Live
<1> QED
  BY <1>1, <1>4, <1>5, <1>6, TableSigns DEF W!SaveWindow

LEMMA SecondSigns == ASSUME SignInInv, W!Second PROVE SignInInv'
<1>1. now \in Nat \ {0} /\ now' = now + 1 /\ bad' = [p \in Peers |-> 0]
      /\ UNCHANGED <<webRecord, gate, window, session, guard, challenge, tokens, nonces, opened, redeemed, cliChanged>>
  BY DEF W!Second, W!secrets, W!drawn, SignInInv, SessionPart, SessionTyped
<1>2. NoncePart'
  BY <1>1, NoncesSame DEF SignInInv
<1>3. \A i \in Slots : session[i].tok # 0 /\ now' < session[i].exp => W!Live(i)
  BY <1>1 DEF W!Live, SignInInv, SessionPart, SessionTyped, SessionSet
<1>4. SessionPart'
  <2>1. now' \in Nat \ {0} /\ now <= now' /\ window' \in Nat /\ session' \in [Slots -> SessionSet]
    BY <1>1 DEF SignInInv, SessionPart, SessionTyped
  <2>2. \A i \in Slots : session'[i].tok \in {session[i].tok, 0}
    BY <1>1
  <2> QED
    BY <1>1, <1>3, <2>1, <2>2, SessionsKept DEF SignInInv
<1>5. GuardPart'
  BY <1>1 DEF SignInInv, GuardPart, GuardTyped, GuardInv
<1> QED
  BY <1>2, <1>4, <1>5 DEF SignInInv

(* The five things a handler does to the session table.                    *)
Served ==
  \/ UNCHANGED <<session, tokens>> /\ now' \in {now, now + 1}
  \/ UNCHANGED now /\ \E pw \in Passwords : W!Create(pw)
  \/ UNCHANGED <<tokens, now>> /\ (session' = W!Cleared \/ \E t \in W!Tokens : session' = W!Slid(t))
  \/ UNCHANGED <<tokens, now>> /\ \E w \in Timeouts : session' = W!Extended(w)
  \/ \E t \in W!Tokens : W!Logout(t)

LEMMA NextServes == W!Next => Served
<1> SUFFICES ASSUME W!Next PROVE Served
  OBVIOUS
<1> USE DEF Served, W!drawn, W!secrets
<1>1. ASSUME NEW p \in Peers, W!Challenge(p) \/ W!TooMany(p) PROVE Served
  BY <1>1 DEF W!Challenge, W!TooMany, W!Reject
<1>2. ASSUME NEW p \in Peers, NEW pw \in Passwords, W!LoginPlain(p, pw) PROVE Served
  BY <1>2 DEF W!LoginPlain, W!Reject, W!Fail
<1>3. ASSUME NEW p \in Peers, NEW pw \in Passwords, NEW n \in 1 .. MaxNonces, W!LoginProof(p, n, pw) PROVE Served
  BY <1>3 DEF W!LoginProof, W!Fail
<1>4. ASSUME NEW t \in W!Tokens, W!Request(t) \/ W!Logout(t) \/ W!ClearPassword(t) PROVE Served
  BY <1>4 DEF W!Request, W!ClearPassword
<1>5. ASSUME NEW t \in W!Tokens, \/ \E w \in Timeouts : W!SaveWindow(t, w)
                                 \/ \E b \in BOOLEAN : W!SaveGate(t, b)
      PROVE  Served
  BY <1>5 DEF W!SaveWindow, W!SaveGate
<1>6. ASSUME NEW t \in W!Tokens, NEW p \in Peers, NEW old \in Passwords, NEW pw \in Passwords,
             W!ChangePassword(t, p, old, pw)
      PROVE  Served
  BY <1>6 DEF W!ChangePassword
<1>7. CASE (\E pw \in Passwords : W!Setup(pw)) \/ (\E pw \in Passwords \cup {"none"} : W!CliPassword(pw)) \/ W!Second
  BY <1>7 DEF W!Setup, W!CliPassword, W!Second
<1> QED
  BY <1>1, <1>2, <1>3, <1>4, <1>5, <1>6, <1>7 DEF W!Next

LEMMA NextEnds ==
  ASSUME SignInInv, W!Next, NEW t \in W!Tokens, W!Ended(t)
  PROVE  W!Ended(t)'
<1> DEFINE Left(i) == W!Live(i)' => W!Live(i) /\ session'[i].tok = session[i].tok
           Fresh(i) == session'[i].tok = tokens + 1
<1>1. SessionPart /\ tokens \in Nat /\ now \in Nat /\ t \in Nat \ {0}
      /\ \A i \in Slots : session[i].tok \in Nat /\ session[i].exp \in Nat
  BY SessionAssumption DEF SignInInv, SessionPart, SessionTyped, SessionSet, W!Tokens
<1>2. Served
  BY NextServes
<1>3. tokens' \in {tokens, tokens + 1} /\ now' \in Nat
  BY <1>1, <1>2 DEF Served, W!Create, W!Logout, W!drawn
<1>4. \A i \in Slots : Left(i) \/ Fresh(i)
  <2>1. CASE UNCHANGED <<session, tokens>> /\ now' \in {now, now + 1}
    BY <1>1, <2>1 DEF W!Live
  <2>2. CASE UNCHANGED now /\ \E pw \in Passwords : W!Create(pw)
    <3> DEFINE new == [tok |-> tokens + 1, exp |-> W!Expiry(window)]
    <3>1. session' = [session EXCEPT ![W!NewSlot] = new]
      BY <2>2 DEF W!Create
    <3>2. \A i \in Slots : session'[i] = new \/ session'[i] = session[i]
      BY <3>1, <1>1 DEF SessionPart, SessionTyped
    <3> QED
      BY <2>2, <3>2 DEF W!Live
  <2>3. CASE UNCHANGED <<tokens, now>> /\ session' = W!Cleared
    BY <2>3 DEF W!Cleared, W!NoSession, W!Live
  <2>4. CASE UNCHANGED <<tokens, now>> /\ \E u \in W!Tokens : session' = W!Slid(u)
    <3>1. /\ \A i \in Slots : session'[i].tok \in {session[i].tok, 0}
          /\ \A i \in Slots : session'[i].tok # 0 /\ now < session'[i].exp => W!Live(i)
      BY <1>1, <2>4, SlidKeeps
    <3> QED
      BY <2>4, <3>1 DEF W!Live
  <2>5. CASE UNCHANGED <<tokens, now>> /\ \E w \in Timeouts : session' = W!Extended(w)
    <3>1. PICK w : session' = W!Extended(w)
      BY <2>5
    <3>2. \A i \in Slots : session'[i] = IF W!Live(i) THEN [session[i] EXCEPT !.exp = W!Expiry(w)] ELSE session[i]
      BY <3>1 DEF W!Extended
    <3>3. \A i \in Slots : session[i] \in SessionSet
      BY <1>1 DEF SessionPart, SessionTyped
    <3>4. \A i \in Slots : session'[i].tok = session[i].tok /\ (session'[i] = session[i] \/ W!Live(i))
      BY <3>2, <3>3 DEF SessionSet
    <3> QED
      BY <2>5, <3>4 DEF W!Live
  <2>6. CASE \E u \in W!Tokens : W!Logout(u)
    <3>1. \A i \in Slots : session'[i] = W!NoSession \/ session'[i] = session[i]
      BY <2>6 DEF W!Logout
    <3> QED
      BY <2>6, <3>1 DEF W!NoSession, W!Live, W!Logout
  <2> QED
    BY <1>2, <2>1, <2>2, <2>3, <2>4, <2>5, <2>6 DEF Served
<1>5. t <= tokens /\ \A i \in Slots : W!Live(i) => session[i].tok # t
  <2>1. t <= tokens
    BY <1>1 DEF W!Ended
  <2> QED
    BY <2>1 DEF W!Ended, W!Of
<1>6. \A i \in Slots : W!Live(i)' => session'[i].tok # t
  BY <1>1, <1>4, <1>5
<1> QED
  BY <1>1, <1>3, <1>5, <1>6 DEF W!Ended, W!Of

LEMMA SignInStart == W!Init => SignInInv
<1> SUFFICES ASSUME W!Init PROVE SignInInv
  OBVIOUS
<1> USE SessionAssumption DEF W!Init
<1>1. now = 1 /\ window \in Nat /\ webRecord \in WebRecords
  BY DEF WebRecords, W!NoPassword
<1>2. W!NoSession \in SessionSet /\ W!NoSession.tok = 0 /\ W!NoGuard \in GuardSet
      /\ W!NoGuard.seen = 0 /\ W!NoGuard.peer = "none"
      /\ W!NoChallenge \in ChallengeSet /\ W!NoChallenge.nonce = 0
  BY DEF W!NoSession, SessionSet, W!NoGuard, GuardSet, W!NoChallenge, ChallengeSet
<1>3. SessionPart
  BY <1>1, <1>2 DEF SessionPart, SessionTyped, SessionInv, W!SessionsFollowPassword, W!Live
<1>4. NoncePart
  BY <1>2 DEF NoncePart, NonceTyped, NonceInv
<1>5. GuardPart
  BY <1>2 DEF GuardPart, GuardTyped, GuardInv
<1> QED
  BY <1>3, <1>4, <1>5 DEF SignInInv

LEMMA SignInStep == SignInInv /\ W!Next => SignInInv'
<1> SUFFICES ASSUME SignInInv, W!Next PROVE SignInInv'
  OBVIOUS
<1>1. CASE \E p \in Peers : W!Challenge(p) \/ W!TooMany(p)
  BY <1>1, ChallengeSigns, RejectSigns DEF W!TooMany
<1>2. CASE \E p \in Peers, pw \in Passwords :
             W!LoginPlain(p, pw) \/ \E n \in 1 .. MaxNonces : W!LoginProof(p, n, pw)
  BY <1>2, LoginPlainSigns, LoginProofSigns
<1>3. ASSUME NEW t \in W!Tokens, W!Request(t) \/ W!Logout(t) \/ W!ClearPassword(t)
      PROVE  SignInInv'
  BY <1>3, RequestSigns, LogoutSigns, ClearSigns
<1>4. ASSUME NEW t \in W!Tokens, \/ \E w \in Timeouts : W!SaveWindow(t, w)
                                 \/ \E b \in BOOLEAN : W!SaveGate(t, b)
      PROVE  SignInInv'
  BY <1>4, WindowSigns, GateSigns
<1>5. ASSUME NEW t \in W!Tokens, \E p \in Peers, old, pw \in Passwords : W!ChangePassword(t, p, old, pw)
      PROVE  SignInInv'
  BY <1>5, ChangeSigns
<1>6. CASE (\E pw \in Passwords : W!Setup(pw)) \/ (\E pw \in Passwords \cup {"none"} : W!CliPassword(pw)) \/ W!Second
  BY <1>6, SetupSigns, CliSigns, SecondSigns
<1> QED
  BY <1>1, <1>2, <1>3, <1>4, <1>5, <1>6 DEF W!Next

LEMMA SignInAlways == ControlSpec => []SignInInv
<1>1. ControlInit => SignInInv
  BY SignInStart DEF ControlInit
<1>2. SignInInv /\ [ControlNext]_<<on, wv, vars, tv, s, lv, cv>> => SignInInv'
  <2> SUFFICES ASSUME SignInInv, [ControlNext]_<<on, wv, vars, tv, s, lv, cv>> PROVE SignInInv'
    OBVIOUS
  <2>1. W!Next \/ UNCHANGED wv
    BY DEF ControlNext
  <2>2. ASSUME UNCHANGED wv PROVE SignInInv'
    BY <2>2, SessionsSame, NoncesSame, GuardSame DEF wv, SignInInv
  <2> QED
    BY <2>1, <2>2, SignInStep
<1> QED
  BY <1>1, <1>2, PTL DEF ControlSpec

(* W!SignInSound: unless the command line changed the password, a session  *)
(* that lives was opened with the one in force, no nonce opens two         *)
(* sessions, and no peer that keeps its bucket hears "wrong" more than     *)
(* three times in a second: for any number of slots, buckets, places,      *)
(* peers and passwords, and however many requests come in whatever order.  *)
THEOREM SignInTrue == ControlSpec => []SignInSound
<1>1. SignInInv => SignInSound
  BY DEF SignInInv, SessionPart, SessionInv, NoncePart, NonceInv, GuardPart, GuardInv,
    SignInSound, W!SignInSound, W!NonceOnce, W!Throttled
<1> QED
  BY <1>1, SignInAlways, PTL

(* NoRevival: a token that was drawn and is of no live session never is    *)
(* again, whatever is saved, and however late.                             *)
THEOREM NeverRevived == ControlSpec => NoRevival
<1> DEFINE Step == \A t \in W!Tokens : W!Ended(t) => W!Ended(t)'
<1>1. SignInInv /\ [ControlNext]_<<on, wv, vars, tv, s, lv, cv>> => [Step]_W!vars
  <2> SUFFICES ASSUME SignInInv, [ControlNext]_<<on, wv, vars, tv, s, lv, cv>> PROVE [Step]_W!vars
    OBVIOUS
  <2>1. CASE UNCHANGED wv
    BY <2>1 DEF wv, W!vars, W!secrets, W!drawn
  <2>2. CASE W!Next
    <3> SUFFICES ASSUME NEW t \in W!Tokens, W!Ended(t) PROVE W!Ended(t)'
      OBVIOUS
    <3> QED
      BY <2>2, NextEnds
  <2> QED
    BY <2>1, <2>2 DEF ControlNext
<1> QED
  BY <1>1, SignInAlways, PTL DEF ControlSpec, NoRevival, W!NoRevival

-----------------------------------------------------------------------------
(* The live ring.  The last bytes of the log, as many as the ring counts,  *)
(* are before its head.                                                    *)
Tells(buf, head, count, last) ==
  \A i \in 1 .. count : buf[Place(Cap, head, i)] = last + 1 - i

LiveRings == [buf : [0 .. Cap - 1 -> Int], head : 0 .. Cap - 1, count : 0 .. Cap]
LiveTyped ==
  /\ live \in LiveRings /\ seq \in 0 .. MaxSeq /\ page \in 0 .. MaxSeq /\ wiped \in Nat
  /\ reply \in [pc : {"idle", "size", "send"}, since : 0 .. MaxSeq, data : Seq(Int), new : 0 .. MaxSeq,
                lost : BOOLEAN]
  /\ tail \in [pc : {"idle", "copy"}, want : Nat, out : Seq(Int), seq : Nat] /\ torn \in BOOLEAN

(* It is short of what it can hold only if it was cleared since.           *)
LiveHolds ==
  /\ live.count <= seq /\ Tells(live.buf, live.head, live.count, seq)
  /\ wiped <= L!Oldest /\ (live.count < Cap => wiped = L!Oldest)

(* Between the copy and the second look at the size the ring can only have *)
(* taken more in.  Before is the byte before the first of the answer.      *)
Before == (IF reply.data = <<>> THEN reply.new + 1 ELSE reply.data[1]) - 1
ReplyHolds ==
  /\ reply.pc = "size" =>
       /\ reply.since < reply.new - live.count => reply.since < Before
       /\ reply.since < Before /\ wiped < Before => live.count = Cap /\ Before = reply.new - Cap
       /\ Before \in Int
  /\ L!GapsMarked

(* What was measured without the lock is still there, unless the log was   *)
(* cleared.                                                                *)
TailHolds ==
  /\ tail.pc = "copy" => tail.out = <<>> /\ (~torn => tail.want <= live.count)
  /\ L!TailInOrder

LogInv == LiveTyped /\ LiveHolds /\ ReplyHolds /\ TailHolds

(* A line stored from the head on, over the oldest bytes.                  *)
LEMMA LineStored ==
  ASSUME NEW buf \in [0 .. Cap - 1 -> Int], NEW h \in 0 .. Cap - 1, NEW n \in 0 .. Cap, NEW last \in Nat,
         Tells(buf, h, n, last), NEW k \in 1 .. Cap, NEW m \in 0 .. Cap, m <= n + k
  PROVE  Tells([p \in 0 .. Cap - 1 |-> LET d == (p + Cap - h) % Cap IN IF d < k THEN last + d + 1 ELSE buf[p]],
               (h + k) % Cap, m, last + k)
<1> USE LogAssumption
<1> DEFINE g == IF h + k < Cap THEN h + k ELSE h + k - Cap
           new == [p \in 0 .. Cap - 1 |-> LET d == (p + Cap - h) % Cap IN IF d < k THEN last + d + 1 ELSE buf[p]]
<1>1. (h + k) % Cap = g
  <2> DEFINE x == h + k
  <2>1. x \in 0 .. 2 * Cap - 1
    OBVIOUS
  <2>2. x % Cap = IF x < Cap THEN x ELSE x - Cap
    <3> HIDE DEF x
    <3> QED BY <2>1, Wraps
  <2> QED
    BY <2>2
<1>2. g \in 0 .. Cap - 1
  OBVIOUS
<1> SUFFICES ASSUME NEW i \in 1 .. m PROVE new[Place(Cap, g, i)] = last + k + 1 - i
  BY <1>1 DEF Tells
<1> DEFINE p == Place(Cap, g, i)
           d == IF i <= k THEN k - i ELSE Cap + k - i
<1>3. p \in 0 .. Cap - 1
  BY <1>2 DEF Place
<1>4. (p + Cap - h) % Cap = d
  <2> DEFINE y == p + Cap - h
  <2>1. y \in 0 .. 2 * Cap - 1
    BY <1>3
  <2>2. y % Cap = IF y < Cap THEN y ELSE y - Cap
    <3> HIDE DEF y
    <3> QED BY <2>1, Wraps
  <2>3. (y < Cap => y = d) /\ (~(y < Cap) => y - Cap = d)
    BY DEF Place
  <2> QED
    BY <2>2, <2>3
<1>5. new[p] = IF d < k THEN last + d + 1 ELSE buf[p]
  BY <1>3, <1>4
<1>6. CASE i <= k
  BY <1>5, <1>6
<1>7. CASE ~(i <= k)
  <2>1. d >= k /\ i - k \in 1 .. n
    BY <1>7
  <2>2. p = Place(Cap, h, i - k)
    BY <1>7 DEF Place
  <2>3. buf[Place(Cap, h, i - k)] = last + 1 - (i - k)
    BY <2>1 DEF Tells
  <2> QED
    BY <1>5, <2>1, <2>2, <2>3
<1> QED
  BY <1>6, <1>7

(* A copy of n bytes that end at the head.                                 *)
LEMMA CopyTells ==
  ASSUME LiveTyped, LiveHolds, NEW n \in 0 .. Cap, n <= live.count
  PROVE  /\ L!From(L!Start(n), n) = [i \in 1 .. n |-> seq - n + i]
         /\ L!From(L!Start(n), n) \in Seq(Int) /\ Len(L!From(L!Start(n), n)) = n
<1> USE LogAssumption
<1>1. ASSUME NEW i \in 1 .. n PROVE live.buf[(L!Start(n) + i - 1) % Cap] = seq - n + i
  <2>1. live.head \in 0 .. Cap - 1 /\ seq \in Nat /\ live.count \in Nat
    BY DEF LiveTyped, LiveRings
  <2>2. (L!Start(n) + i - 1) % Cap = Place(Cap, live.head, n + 1 - i)
    BY <2>1, ReadFrom DEF L!Start
  <2>3. n + 1 - i \in 1 .. live.count
    BY <2>1
  <2>4. live.buf[Place(Cap, live.head, n + 1 - i)] = seq + 1 - (n + 1 - i)
    BY <2>3 DEF LiveHolds, Tells
  <2> QED
    BY <2>1, <2>2, <2>4
<1>2. L!From(L!Start(n), n) = [i \in 1 .. n |-> seq - n + i]
  BY <1>1 DEF L!From
<1>3. \A i \in 1 .. n : seq - n + i \in Int
  BY DEF LiveTyped
<1>4. [i \in 1 .. n |-> seq - n + i] \in [1 .. n -> Int] /\ n \in Nat
  BY <1>3
<1>5. L!From(L!Start(n), n) \in Seq(Int)
  BY <1>2, <1>4, SeqDef
<1>6. Len(L!From(L!Start(n), n)) = n
  BY <1>2, <1>4, <1>5, LenProperties
<1> QED
  BY <1>2, <1>5, <1>6

LEMMA LogKeeps == ASSUME LogInv, L!Log PROVE LogInv' /\ L!Window!Next
<1> USE LogAssumption
<1>0. /\ live.buf \in [0 .. Cap - 1 -> Int] /\ live.head \in 0 .. Cap - 1 /\ live.count \in 0 .. Cap
      /\ seq \in Nat /\ live.count <= seq
  BY DEF LogInv, LiveTyped, LiveRings, LiveHolds
<1>1. PICK k \in 1 .. MaxLine : seq + k <= MaxSeq /\ seq' = seq + k /\ live' = L!Stored(k)
  BY DEF L!Log
<1>2. UNCHANGED <<page, reply, tail, torn, wiped>>
  BY DEF L!Log, L!readers
<1> DEFINE m == L!Lower(live.count + k, Cap)
           new == [p \in 0 .. Cap - 1 |-> LET d == (p + Cap - live.head) % Cap
                                           IN IF d < k THEN seq + d + 1 ELSE live.buf[p]]
<1>3. k \in 1 .. Cap /\ m \in 0 .. Cap /\ m = (IF live.count + k <= Cap THEN live.count + k ELSE Cap)
  BY <1>0 DEF L!Lower
<1>4. live' = [buf |-> new, head |-> (live.head + k) % Cap, count |-> m]
  BY <1>1 DEF L!Stored
<1>5. \A p \in 0 .. Cap - 1 : (p + Cap - live.head) % Cap \in Int
  BY <1>0
<1>6. new \in [0 .. Cap - 1 -> Int]
  <2> DEFINE At(p) == LET d == (p + Cap - live.head) % Cap IN IF d < k THEN seq + d + 1 ELSE live.buf[p]
  <2>1. ASSUME NEW p \in 0 .. Cap - 1 PROVE At(p) \in Int
    <3> DEFINE d == (p + Cap - live.head) % Cap
    <3>1. d \in Int /\ live.buf[p] \in Int /\ seq \in Int
      BY <1>0, <1>5
    <3> HIDE DEF d
    <3>2. (IF d < k THEN seq + d + 1 ELSE live.buf[p]) \in Int
      BY <3>1
    <3> QED
      BY <3>2 DEF d
  <2> HIDE DEF At
  <2>2. [p \in 0 .. Cap - 1 |-> At(p)] \in [0 .. Cap - 1 -> Int]
    BY <2>1
  <2> QED
    BY <2>2 DEF At
<1>7. (live.head + k) % Cap \in 0 .. Cap - 1
  <2> DEFINE x == live.head + k
  <2>1. x \in Int
    BY <1>0
  <2>2. x % Cap \in 0 .. Cap - 1
    <3> HIDE DEF x
    <3> QED BY <2>1
  <2> QED
    BY <2>2
<1>8. Tells(new, (live.head + k) % Cap, m, seq + k)
  <2>1. Tells(live.buf, live.head, live.count, seq)
    BY DEF LogInv, LiveHolds
  <2>2. m <= live.count + k
    BY <1>0, <1>3
  <2> HIDE DEF m
  <2> QED
    BY <1>0, <1>3, <2>1, <2>2, LineStored
<1> HIDE DEF new, m
<1>9. live' \in LiveRings /\ live'.count = m /\ live'.buf = new /\ live'.head = (live.head + k) % Cap
  BY <1>3, <1>4, <1>6, <1>7 DEF LiveRings
<1>90. live'.count = m
  BY <1>9
<1>a. live.count \in Nat /\ live.count <= Cap /\ k \in Nat /\ Cap \in Nat
  BY <1>0, <1>3
<1>b. /\ m \in Nat /\ m <= Cap /\ m <= seq + k /\ live.count <= m
      /\ live.count = Cap => m = Cap
      /\ seq - live.count <= seq + k - m
      /\ m < Cap => live.count < Cap /\ seq - live.count = seq + k - m
      /\ seq + k - m = IF seq + k > Cap /\ seq - live.count < seq + k - Cap THEN seq + k - Cap
                       ELSE seq - live.count
  <2>1. PICK n \in Nat, z \in Nat : n = live.count /\ z = seq
    BY <1>0, <1>a
  <2>2. n <= z /\ n <= Cap
    BY <1>0, <1>a, <2>1
  <2>3. CASE n + k <= Cap
    <3>1. m = n + k
      BY <1>3, <2>1, <2>3
    <3>2. n + k - n = k /\ z + k - (n + k) = z - n /\ ~(z - n < z + k - Cap) /\ (n = Cap => k = 0)
          /\ n + k <= z + k /\ n <= n + k /\ n + k \in Nat /\ (n + k < Cap => n < Cap) /\ z - n <= z - n
      BY <1>a, <2>2, <2>3
    <3> QED
      BY <2>1, <2>3, <3>1, <3>2
  <2>4. CASE n + k > Cap
    <3>1. m = Cap
      BY <1>3, <1>a, <2>1, <2>4
    <3>2. z + k > Cap /\ z - n < z + k - Cap /\ Cap <= z + k /\ ~(Cap < Cap) /\ Cap <= Cap
          /\ z - n <= z + k - Cap
      BY <1>a, <2>2, <2>4
    <3> QED
      BY <1>a, <2>1, <2>2, <3>1, <3>2
  <2> QED
    BY <1>a, <2>3, <2>4
<1>c. L!Oldest' = seq + k - m
  <2>1. L!Oldest' = seq' - live'.count
    BY DEF L!Oldest
  <2> QED
    BY <1>0, <1>1, <1>90, <1>a, <1>b, <2>1
<1>10. LiveTyped'
  BY <1>0, <1>1, <1>2, <1>9 DEF LogInv, LiveTyped, LiveRings
<1>11. live'.count <= seq' /\ live'.count >= live.count
  BY <1>1, <1>90, <1>b
<1>12. LiveHolds'
  <2>1. Tells(live'.buf, live'.head, live'.count, seq')
    BY <1>1, <1>8, <1>9
  <2>2. wiped' <= L!Oldest' /\ (live'.count < Cap => wiped' = L!Oldest')
    <3>1. wiped \in Nat /\ wiped <= seq - live.count /\ (live.count < Cap => wiped = seq - live.count)
      BY DEF LogInv, LiveTyped, LiveHolds, L!Oldest
    <3>2. L!Oldest' = seq + k - m /\ wiped' = wiped /\ live'.count = m
      BY <1>2, <1>90, <1>c
    <3>3. wiped <= seq + k - m
      <4>1. seq - live.count \in Nat /\ seq + k - m \in Int
        BY <1>0, <1>a, <1>b
      <4> QED
        BY <1>b, <3>1, <4>1
    <3> QED
      BY <1>b, <3>1, <3>2, <3>3
  <2> QED
    BY <1>11, <2>1, <2>2 DEF LiveHolds, Tells
<1>13. ReplyHolds'
  <2>1. L!GapsMarked'
    BY <1>2 DEF LogInv, ReplyHolds, L!GapsMarked
  <2>2. ASSUME reply.pc = "size"
        PROVE  /\ reply.since < reply.new - live'.count => reply.since < Before
               /\ reply.since < Before /\ wiped < Before => live'.count = Cap /\ Before = reply.new - Cap
    <3>1. /\ reply.since < reply.new - live.count => reply.since < Before
          /\ reply.since < Before /\ wiped < Before => live.count = Cap /\ Before = reply.new - Cap
          /\ reply.new \in Nat /\ reply.since \in Nat
      BY <2>2 DEF LogInv, ReplyHolds, LiveTyped
    <3>2. live.count = Cap => live'.count = Cap
      BY <1>90, <1>b
    <3>3. live'.count \in Nat /\ live'.count >= live.count
      BY <1>90, <1>b, <1>11
    <3>4. reply.since < reply.new - live'.count => reply.since < reply.new - live.count
      BY <1>a, <3>1, <3>3
    <3> QED
      BY <3>1, <3>2, <3>4
  <2>3. Before' = Before
    BY <1>2 DEF Before
  <2> QED
    BY <1>2, <2>1, <2>2, <2>3 DEF LogInv, ReplyHolds
<1>14. TailHolds'
  <2>1. L!TailInOrder'
    BY <1>2 DEF LogInv, TailHolds, L!TailInOrder
  <2>2. tail.pc = "copy" /\ ~torn => tail.want <= live'.count
    <3>1. tail.pc = "copy" /\ ~torn => tail.want <= live.count /\ tail.want \in Nat
      BY DEF LogInv, TailHolds, LiveTyped
    <3> QED
      BY <1>90, <1>a, <1>b, <3>1
  <2> QED
    BY <1>2, <2>1, <2>2 DEF LogInv, TailHolds
<1>15. L!Window!Append(k)
  <2>1. L!Oldest' = IF seq + k > Cap THEN L!Window!Later(L!Oldest, seq + k - Cap) ELSE L!Oldest
    <3>1. L!Oldest' = seq + k - m /\ L!Oldest = seq - live.count
      BY <1>c DEF L!Oldest
    <3>2. seq - live.count \in Nat /\ seq + k - Cap \in Int
      BY <1>0, <1>a
    <3> HIDE DEF m
    <3> QED
      BY <1>b, <3>1, <3>2 DEF L!Window!Later
  <2> QED
    BY <1>1, <1>2, <2>1 DEF L!Window!Append
<1> QED
  BY <1>3, <1>10, <1>12, <1>13, <1>14, <1>15 DEF LogInv, L!Window!Next

LEMMA EmptyRing == L!Empty \in LiveRings /\ L!Empty.count = 0
<1>1. 0 \in 0 .. Cap - 1 /\ 0 \in 0 .. Cap
  BY LogAssumption
<1> QED
  BY <1>1 DEF L!Empty, LiveRings

LEMMA RebootKeeps == ASSUME LogInv, L!Reboot PROVE LogInv' /\ L!Window!Next
<1> USE LogAssumption
<1>1. /\ live' = L!Empty /\ seq' = 0 /\ wiped' = 0 /\ torn' = FALSE /\ page' = page
      /\ reply' = [reply EXCEPT !.pc = "idle", !.lost = FALSE] /\ tail' = L!NoTail
  BY DEF L!Reboot, L!Sent
<1>2. live' \in LiveRings /\ live'.count = 0
  BY <1>1, EmptyRing
<1>3. <<>> \in Seq(Int)
  OBVIOUS
<1>4. LiveTyped'
  <2>1. reply' \in [pc : {"idle", "size", "send"}, since : 0 .. MaxSeq, data : Seq(Int), new : 0 .. MaxSeq, lost : BOOLEAN]
    BY <1>1 DEF LogInv, LiveTyped
  <2>2. tail' \in [pc : {"idle", "copy"}, want : Nat, out : Seq(Int), seq : Nat]
    BY <1>1, <1>3 DEF L!NoTail
  <2>3. seq' \in 0 .. MaxSeq /\ page' \in 0 .. MaxSeq /\ wiped' \in Nat /\ torn' \in BOOLEAN
    <3>1. page \in 0 .. MaxSeq /\ 0 \in 0 .. MaxSeq
      BY DEF LogInv, LiveTyped
    <3>2. seq' = 0 /\ page' = page /\ wiped' = 0 /\ torn' = FALSE
      BY <1>1
    <3> QED
      BY <3>1, <3>2
  <2> QED
    BY <1>2, <2>1, <2>2, <2>3 DEF LiveTyped
<1>5. LiveHolds'
  BY <1>1, <1>2 DEF LiveHolds, Tells, L!Oldest
<1>6. reply'.pc = "idle" /\ reply'.since = reply.since /\ reply'.data = reply.data
  BY <1>1 DEF LogInv, LiveTyped
<1>7. ReplyHolds'
  BY <1>6 DEF ReplyHolds, L!GapsMarked
<1>8. TailHolds'
  BY <1>1 DEF TailHolds, L!TailInOrder, L!NoTail
<1>9. L!Window!Boot
  BY <1>1, <1>2, <1>6 DEF L!Window!Boot, L!Oldest
<1> QED
  BY <1>4, <1>5, <1>7, <1>8, <1>9 DEF LogInv, L!Window!Next

LEMMA ClearKeeps == ASSUME LogInv, L!Clear PROVE LogInv' /\ L!Window!Next
<1> USE LogAssumption
<1>1. /\ live' = [live EXCEPT !.head = 0, !.count = 0] /\ wiped' = seq /\ reply.pc = "idle"
      /\ torn' = (torn \/ tail.pc = "copy") /\ UNCHANGED <<seq, page, reply, tail>>
  BY DEF L!Clear
<1>2. live' \in LiveRings /\ live'.count = 0
  <2>1. 0 \in 0 .. Cap - 1 /\ 0 \in 0 .. Cap
    OBVIOUS
  <2> QED
    BY <1>1, <2>1 DEF LogInv, LiveTyped, LiveRings
<1>3. LiveTyped'
  BY <1>1, <1>2 DEF LogInv, LiveTyped
<1>4. LiveHolds'
  BY <1>1, <1>2 DEF LogInv, LiveTyped, LiveHolds, Tells, L!Oldest
<1>5. ReplyHolds'
  BY <1>1 DEF ReplyHolds, L!GapsMarked
<1>6. TailHolds'
  BY <1>1 DEF LogInv, LiveTyped, TailHolds, L!TailInOrder
<1>7. L!Window!Clear
  BY <1>1, <1>2 DEF LogInv, LiveTyped, L!Window!Clear, L!Oldest
<1> QED
  BY <1>3, <1>4, <1>5, <1>6, <1>7 DEF LogInv, L!Window!Next

LEMMA PollKeeps == ASSUME LogInv, L!Poll PROVE LogInv' /\ L!Window!Next
<1> USE LogAssumption
<1> DEFINE b == IF page < L!Oldest THEN L!Oldest ELSE page
           data == IF page >= seq THEN <<>> ELSE L!From(L!Start(L!Behind(page)), L!Behind(page))
<1>1. /\ reply' = [pc |-> "size", since |-> page, new |-> seq, lost |-> FALSE, data |-> data]
      /\ UNCHANGED <<live, seq, page, tail, torn, wiped>>
  BY DEF L!Poll
<1>2. /\ live.count \in 0 .. Cap /\ seq \in 0 .. MaxSeq /\ page \in 0 .. MaxSeq /\ live.count <= seq /\ wiped \in Nat
      /\ L!Oldest = seq - live.count /\ wiped <= L!Oldest /\ (live.count < Cap => wiped = L!Oldest)
  BY DEF LogInv, LiveTyped, LiveRings, LiveHolds, L!Oldest
<1>3. ASSUME page < seq
      PROVE  /\ data = [i \in 1 .. seq - b |-> b + i] /\ data \in Seq(Int) /\ Len(data) = seq - b
             /\ seq - b \in Nat
  <2> DEFINE n == seq - b
  <2>1. n \in 0 .. Cap /\ n <= live.count /\ L!Behind(page) = n
    BY <1>2, <1>3 DEF L!Behind
  <2>2. data = L!From(L!Start(n), n)
    BY <1>3, <1>2, <2>1
  <2>3. \A i \in 1 .. n : seq - n + i = b + i
    BY <1>2
  <2> HIDE DEF data, b
  <2>4. /\ L!From(L!Start(n), n) = [i \in 1 .. n |-> seq - n + i]
        /\ L!From(L!Start(n), n) \in Seq(Int) /\ Len(L!From(L!Start(n), n)) = n
    <3> HIDE DEF n
    <3> QED
      BY <2>1, CopyTells DEF LogInv
  <2> QED
    BY <2>1, <2>2, <2>3, <2>4
<1>4. b \in 0 .. MaxSeq /\ <<>> \in Seq(Int) /\ Len(<<>>) = 0
  BY <1>2
<1>5. data \in Seq(Int) /\ (page >= seq => data = <<>>)
  BY <1>2, <1>3, <1>4
<1>6. L!Window!From(page) = [since |-> page, data |-> data]
  <2>1. L!Window!Later(page, L!Oldest) = b
    BY <1>2 DEF L!Window!Later
  <2>2. CASE page < seq
    <3>1. (IF b < seq THEN seq - b ELSE 0) = seq - b
      BY <1>2, <2>2
    <3> QED
      BY <1>3, <2>1, <2>2, <3>1 DEF L!Window!From
  <2>3. CASE page >= seq
    <3>1. ~(b < seq) /\ 1 .. 0 = {}
      BY <1>2, <2>3
    <3>2. [i \in 1 .. 0 |-> b + i] = <<>>
      BY <3>1
    <3> HIDE DEF b, data
    <3> QED
      BY <1>5, <2>1, <2>3, <3>1, <3>2 DEF L!Window!From
  <2> QED
    BY <1>2, <2>2, <2>3
<1> HIDE DEF data
<1>7. LiveTyped' /\ LiveHolds'
  <2>1. reply' \in [pc : {"idle", "size", "send"}, since : 0 .. MaxSeq, data : Seq(Int), new : 0 .. MaxSeq, lost : BOOLEAN]
    BY <1>1, <1>2, <1>5
  <2> QED
    BY <1>1, <2>1 DEF LogInv, LiveTyped, LiveHolds, L!Oldest
<1>8. Before' = IF page < seq THEN b ELSE seq
  <2>1. CASE data = <<>>
    <3>1. page < seq => seq - b = 0
      BY <1>3, <1>4, <2>1
    <3> QED
      BY <1>1, <1>2, <2>1, <3>1 DEF Before
  <2>2. CASE data # <<>>
    <3>1. page < seq /\ Len(data) # 0
      BY <1>2, <1>5, <2>2, EmptySeq
    <3>2. data[1] = b + 1
      BY <1>3, <3>1
    <3> QED
      BY <1>1, <1>2, <1>4, <2>2, <3>1, <3>2 DEF Before
  <2> QED
    BY <2>1, <2>2
<1>9. ReplyHolds'
  BY <1>1, <1>2, <1>8 DEF ReplyHolds, L!GapsMarked
<1>10. TailHolds'
  BY <1>1 DEF LogInv, TailHolds, L!TailInOrder
<1>11. L!Window!Read(page)
  <2>1. UNCHANGED <<seq, L!Oldest>>
    BY <1>1 DEF L!Oldest
  <2>2. reply'.since = page /\ reply'.data = data
    BY <1>1
  <2> QED
    BY <1>6, <2>1, <2>2 DEF L!Window!Read
<1> QED
  BY <1>2, <1>7, <1>9, <1>10, <1>11 DEF LogInv, L!Window!Next

LEMMA MarkKeeps == ASSUME LogInv, L!Mark PROVE LogInv' /\ UNCHANGED L!Window!vars
<1> USE LogAssumption
<1> DEFINE oldest == IF reply.new > live.count THEN reply.new - live.count ELSE 0
           lost == L!Lost(reply.since, oldest)
<1>1. /\ reply.pc = "size" /\ reply' = [reply EXCEPT !.pc = "send", !.lost = lost]
      /\ UNCHANGED <<live, seq, page, tail, torn, wiped>>
  BY DEF L!Mark
<1>2. /\ live.count \in 0 .. Cap /\ reply.new \in Nat /\ reply.since \in Nat /\ wiped \in Nat
      /\ reply.since < reply.new - live.count => reply.since < Before
      /\ reply.since < Before /\ wiped < Before => live.count = Cap /\ Before = reply.new - Cap
      /\ Before \in Int
  BY <1>1 DEF LogInv, LiveTyped, LiveRings, ReplyHolds
<1>3. lost \in BOOLEAN /\ (lost <=> reply.since # 0 /\ reply.since < oldest)
  BY DEF L!Lost
<1> HIDE DEF lost
<1>4. /\ reply'.pc = "send" /\ reply'.since = reply.since /\ reply'.data = reply.data /\ reply'.new = reply.new
      /\ (reply'.lost <=> lost)
      /\ reply' \in [pc : {"idle", "size", "send"}, since : 0 .. MaxSeq, data : Seq(Int), new : 0 .. MaxSeq, lost : BOOLEAN]
  BY <1>1, <1>3 DEF LogInv, LiveTyped
<1>5. LiveTyped' /\ LiveHolds'
  BY <1>1, <1>4 DEF LogInv, LiveTyped, LiveHolds, L!Oldest
<1>6. TailHolds'
  BY <1>1 DEF LogInv, TailHolds, L!TailInOrder
<1>7. ReplyHolds'
  <2> DEFINE next == IF reply.data = <<>> THEN reply.new + 1 ELSE reply.data[1]
  <2>1. next = Before + 1
    <3>1. CASE reply.data = <<>>
      BY <1>2, <3>1 DEF Before
    <3>2. CASE reply.data # <<>>
      <4>1. Len(reply.data) # 0 /\ reply.data \in Seq(Int)
        BY <3>2, EmptySeq DEF LogInv, LiveTyped
      <4>2. reply.data[1] \in Int
        BY <4>1
      <4> QED
        BY <3>2, <4>2 DEF Before
    <3> QED
      BY <3>1, <3>2
  <2> HIDE DEF next
  <2>2. lost => reply.since + 1 < next
    BY <1>2, <1>3, <2>1
  <2>3. reply.since # 0 /\ reply.since + 1 < next /\ wiped + 1 < next => lost
    BY <1>2, <1>3, <2>1
  <2>4. L!GapsMarked'
    BY <1>1, <1>4, <2>2, <2>3 DEF L!GapsMarked, next
  <2> QED
    BY <1>4, <2>4 DEF ReplyHolds
<1>8. UNCHANGED L!Window!vars
  BY <1>1, <1>4 DEF L!Window!vars, L!Oldest
<1> QED
  BY <1>5, <1>6, <1>7, <1>8 DEF LogInv

LEMMA SendKeeps == ASSUME LogInv, L!Send PROVE LogInv' /\ UNCHANGED L!Window!vars
<1>1. /\ reply' = [reply EXCEPT !.pc = "idle", !.lost = FALSE] /\ page' \in {reply.new, page}
      /\ UNCHANGED <<live, seq, tail, torn, wiped>>
  BY DEF L!Send, L!Sent
<1>2. /\ reply'.pc = "idle" /\ reply'.since = reply.since /\ reply'.data = reply.data
      /\ reply' \in [pc : {"idle", "size", "send"}, since : 0 .. MaxSeq, data : Seq(Int), new : 0 .. MaxSeq, lost : BOOLEAN]
  BY <1>1 DEF LogInv, LiveTyped
<1>3. LiveTyped' /\ LiveHolds'
  BY <1>1, <1>2 DEF LogInv, LiveTyped, LiveHolds, L!Oldest
<1>4. ReplyHolds' /\ TailHolds'
  BY <1>1, <1>2 DEF LogInv, ReplyHolds, L!GapsMarked, TailHolds, L!TailInOrder
<1>5. UNCHANGED L!Window!vars
  BY <1>1, <1>2 DEF L!Window!vars, L!Oldest
<1> QED
  BY <1>3, <1>4, <1>5 DEF LogInv

LEMMA PageKeeps == ASSUME LogInv, L!OpenPage PROVE LogInv' /\ UNCHANGED L!Window!vars
<1> USE LogAssumption
<1>1. page' = 0 /\ 0 \in 0 .. MaxSeq /\ UNCHANGED <<live, seq, reply, tail, torn, wiped>>
  BY DEF L!OpenPage
<1>2. LiveTyped' /\ LiveHolds'
  BY <1>1 DEF LogInv, LiveTyped, LiveHolds, L!Oldest
<1>3. ReplyHolds' /\ TailHolds'
  BY <1>1 DEF LogInv, ReplyHolds, L!GapsMarked, Before, TailHolds, L!TailInOrder
<1>4. UNCHANGED L!Window!vars
  BY <1>1 DEF L!Window!vars, L!Oldest
<1> QED
  BY <1>2, <1>3, <1>4 DEF LogInv

LEMMA SizedKeeps == ASSUME LogInv, L!TailSized PROVE LogInv' /\ UNCHANGED L!Window!vars
<1> USE LogAssumption
<1>1. /\ tail' = [pc |-> "copy", want |-> L!Lower(live.count, TailSize), out |-> <<>>, seq |-> 0]
      /\ torn' = FALSE /\ UNCHANGED <<live, seq, page, reply, wiped>>
  BY DEF L!TailSized
<1>2. live.count \in 0 .. Cap
  BY DEF LogInv, LiveTyped, LiveRings
<1>3. L!Lower(live.count, TailSize) \in Nat /\ L!Lower(live.count, TailSize) <= live.count
  BY <1>2 DEF L!Lower
<1>4. LiveTyped' /\ LiveHolds'
  <2>1. <<>> \in Seq(Int)
    OBVIOUS
  <2>2. tail' \in [pc : {"idle", "copy"}, want : Nat, out : Seq(Int), seq : Nat]
    BY <1>1, <1>3, <2>1
  <2> QED
    BY <1>1, <2>2 DEF LogInv, LiveTyped, LiveHolds, L!Oldest
<1>5. ReplyHolds'
  BY <1>1 DEF LogInv, ReplyHolds, L!GapsMarked, Before
<1>6. TailHolds'
  BY <1>1, <1>3 DEF TailHolds, L!TailInOrder
<1>7. UNCHANGED L!Window!vars
  BY <1>1 DEF L!Window!vars, L!Oldest
<1> QED
  BY <1>4, <1>5, <1>6, <1>7 DEF LogInv

(* The start of the whole, moved on to that of the last w bytes.           *)
LEMMA StartMoves ==
  ASSUME NEW h \in 0 .. Cap - 1, NEW n \in 0 .. Cap, NEW w \in 0 .. Cap, w < n
  PROVE  (((h + Cap - n) % Cap) + n - w) % Cap = (h + Cap - w) % Cap
<1> USE LogAssumption
<1> DEFINE x == h + Cap - n
           y == h + Cap - w
           x0 == IF x < Cap THEN x ELSE x - Cap
           z == x0 + n - w
<1>1. x \in 0 .. 2 * Cap - 1 /\ y \in 0 .. 2 * Cap - 1 /\ z \in 0 .. 2 * Cap - 1
  OBVIOUS
<1>2. (z < Cap <=> z = (IF y < Cap THEN y ELSE y - Cap)) /\ (z >= Cap <=> z - Cap = (IF y < Cap THEN y ELSE y - Cap))
  OBVIOUS
<1>3. x % Cap = x0
  <2> HIDE DEF x
  <2> QED BY <1>1, Wraps
<1>4. y % Cap = IF y < Cap THEN y ELSE y - Cap
  <2> HIDE DEF y
  <2> QED BY <1>1, Wraps
<1>5. z % Cap = IF z < Cap THEN z ELSE z - Cap
  <2> HIDE DEF z
  <2> QED BY <1>1, Wraps
<1>6. z % Cap = y % Cap
  <2> HIDE DEF x0, z, y
  <2> QED BY <1>1, <1>2, <1>4, <1>5
<1>7. (x % Cap) + n - w = z
  BY <1>3
<1> QED
  BY <1>6, <1>7

LEMMA CopyKeeps == ASSUME LogInv, L!TailCopy PROVE LogInv' /\ UNCHANGED L!Window!vars
<1> USE LogAssumption
<1> DEFINE out == L!From(L!TailStart(tail.want), tail.want)
           w == tail.want
<1>1. /\ tail.pc = "copy" /\ tail' = [pc |-> "idle", want |-> 0, out |-> out, seq |-> seq]
      /\ UNCHANGED <<live, seq, page, reply, torn, wiped>>
  BY DEF L!TailCopy, L!NoTail
<1>2. /\ live.count \in 0 .. Cap /\ live.head \in 0 .. Cap - 1 /\ live.buf \in [0 .. Cap - 1 -> Int]
      /\ seq \in Nat /\ live.count <= seq /\ w \in Nat /\ (~torn => w <= live.count)
  BY <1>1 DEF LogInv, LiveTyped, LiveRings, LiveHolds, TailHolds
<1>3. out \in Seq(Int)
  <2> DEFINE z == L!TailStart(w)
  <2>1. z \in Int
    <3> DEFINE x == live.head + Cap - live.count
               y == L!Start(live.count) + live.count - w
    <3>1. x \in Int
      BY <1>2
    <3>2. x % Cap \in Int
      <4> HIDE DEF x
      <4> QED BY <3>1
    <3>3. L!Start(live.count) \in Int
      BY <3>2 DEF L!Start
    <3>4. y \in Int
      BY <1>2, <3>3
    <3>5. y % Cap \in Int
      <4> HIDE DEF y
      <4> QED BY <3>4
    <3> QED
      BY <3>3, <3>5 DEF L!TailStart
  <2> HIDE DEF z
  <2>2. \A i \in 1 .. w : (z + i - 1) % Cap \in 0 .. Cap - 1
    <3> SUFFICES ASSUME NEW i \in 1 .. w PROVE (z + i - 1) % Cap \in 0 .. Cap - 1
      OBVIOUS
    <3> DEFINE x == z + i - 1
    <3>1. x \in Int
      BY <2>1
    <3>2. x % Cap \in 0 .. Cap - 1
      <4> HIDE DEF x
      <4> QED BY <3>1
    <3> QED
      BY <3>2
  <2>3. L!From(z, w) \in [1 .. w -> Int]
    BY <1>2, <2>2 DEF L!From
  <2>4. w \in Nat
    BY <1>2
  <2>5. L!From(z, w) \in Seq(Int)
    BY <2>3, <2>4, SeqDef
  <2>6. out = L!From(z, w)
    BY DEF z
  <2> QED
    BY <2>5, <2>6, Zenon
<1>4. ASSUME ~torn
      PROVE  out = [i \in 1 .. w |-> seq - w + i] /\ Len(out) = w
  <2>1. w \in 0 .. Cap /\ w <= live.count
    BY <1>2, <1>4
  <2>2. L!TailStart(w) = L!Start(w)
    <3>1. CASE w < live.count
      <4> DEFINE h == live.head
                 n == live.count
      <4>1. h \in 0 .. Cap - 1 /\ n \in 0 .. Cap /\ w \in 0 .. Cap /\ w < n
        BY <1>2, <2>1, <3>1
      <4>2. (((h + Cap - n) % Cap) + n - w) % Cap = (h + Cap - w) % Cap
        <5> HIDE DEF h, n, w
        <5> QED BY <4>1, StartMoves
      <4> QED
        BY <3>1, <4>2 DEF L!TailStart, L!Start
    <3>2. CASE w = live.count
      BY <3>2, <1>2 DEF L!TailStart
    <3> QED
      BY <1>2, <2>1, <3>1, <3>2
  <2>3. out = L!From(L!Start(w), w)
    BY <2>2
  <2> HIDE DEF out, w
  <2> QED
    BY <2>1, <2>3, CopyTells DEF LogInv
<1> HIDE DEF out, w
<1>5. LiveTyped' /\ LiveHolds'
  BY <1>1, <1>2, <1>3 DEF LogInv, LiveTyped, LiveHolds, L!Oldest
<1>6. ReplyHolds'
  BY <1>1 DEF LogInv, ReplyHolds, L!GapsMarked, Before
<1>7. TailHolds'
  <2>1. ASSUME ~torn PROVE Len(out) <= seq /\ \A i \in 1 .. Len(out) : out[i] = seq - Len(out) + i
    BY <1>2, <1>4, <2>1
  <2> QED
    BY <1>1, <2>1 DEF TailHolds, L!TailInOrder
<1>8. UNCHANGED L!Window!vars
  BY <1>1 DEF L!Window!vars, L!Oldest
<1> QED
  BY <1>5, <1>6, <1>7, <1>8 DEF LogInv

LEMMA LogStarts == L!Init => LogInv /\ L!Window!Init
<1> SUFFICES ASSUME L!Init PROVE LogInv /\ L!Window!Init
  OBVIOUS
<1>1. /\ live = L!Empty /\ seq = 0 /\ page = 0 /\ wiped = 0 /\ torn = FALSE
      /\ reply = [pc |-> "idle", since |-> 0, data |-> <<>>, new |-> 0, lost |-> FALSE]
      /\ tail = [pc |-> "idle", want |-> 0, out |-> <<>>, seq |-> 0]
  BY DEF L!Init, L!NoReply, L!NoTail
<1>2. <<>> \in Seq(Int) /\ 0 \in 0 .. MaxSeq
  BY LogAssumption
<1>3. live \in LiveRings /\ live.count = 0
  BY <1>1, EmptyRing
<1>4. LiveTyped
  BY <1>1, <1>2, <1>3 DEF LiveTyped
<1>5. LiveHolds
  BY <1>1, <1>3 DEF LiveHolds, Tells, L!Oldest
<1>6. ReplyHolds /\ TailHolds
  BY <1>1 DEF ReplyHolds, L!GapsMarked, TailHolds, L!TailInOrder
<1>7. L!Window!Init
  BY <1>1, <1>3 DEF L!Window!Init, L!Oldest
<1> QED
  BY <1>4, <1>5, <1>6, <1>7 DEF LogInv

LEMMA LogStep ==
  ASSUME LogInv, [ControlNext]_<<on, wv, vars, tv, s, lv, cv>>
  PROVE  LogInv' /\ [L!Window!Next]_L!Window!vars
<1>1. CASE UNCHANGED lv
  <2>1. UNCHANGED <<live, seq, page, reply, tail, torn, wiped>>
    BY <1>1 DEF lv
  <2>2. LiveTyped' /\ LiveHolds'
    BY <2>1 DEF LogInv, LiveTyped, LiveHolds, L!Oldest
  <2>3. ReplyHolds' /\ TailHolds'
    BY <2>1 DEF LogInv, ReplyHolds, Before, L!GapsMarked, TailHolds, L!TailInOrder
  <2>4. UNCHANGED L!Window!vars
    BY <2>1 DEF L!Window!vars, L!Oldest
  <2> QED
    BY <2>2, <2>3, <2>4 DEF LogInv
<1>2. CASE L!Next
  BY <1>2, LogKeeps, RebootKeeps, ClearKeeps, PollKeeps, MarkKeeps, SendKeeps, PageKeeps, SizedKeeps, CopyKeeps
    DEF L!Next
<1> QED
  BY <1>1, <1>2 DEF ControlNext

LEMMA LogAlways == ControlSpec => []LogInv
<1>1. ControlInit => LogInv
  BY LogStarts DEF ControlInit
<1> QED
  BY <1>1, LogStep, PTL DEF ControlSpec

(* ServesTheWindow: the ring of any size, with its head, its count and its *)
(* copies in two chunks, implements a log of which the newest bytes are    *)
(* kept: the page is given all it has not seen that is still kept.         *)
THEOREM RingIsWindow == ControlSpec => ServesTheWindow
<1>1. ControlInit => L!Window!Init
  BY LogStarts DEF ControlInit
<1>2. LogInv /\ [ControlNext]_<<on, wv, vars, tv, s, lv, cv>> => [L!Window!Next]_L!Window!vars
  BY LogStep
<1> QED
  BY <1>1, <1>2, LogAlways, PTL DEF ControlSpec, ServesTheWindow, L!ServesTheWindow, L!Window!Spec

(* L!ReadersToldTruly: no reader misses a gap that the ring's wrap made,   *)
(* none is told of a gap that is not there, and the tail in an alert is    *)
(* the end of the log, for any size of ring, line and buffer, although     *)
(* sizes are read before and after the copies without the lock.            *)
THEOREM ReadersTold == ControlSpec => []ReadersToldTruly
<1>1. LogInv => ReadersToldTruly
  BY DEF LogInv, ReplyHolds, TailHolds, ReadersToldTruly, L!ReadersToldTruly
<1> QED
  BY <1>1, LogAlways, PTL

-----------------------------------------------------------------------------
(* The routes.  What the hook looks up in the list of netifs: the first    *)
(* that passes a test, and "none" when none does.                          *)
LEMMA FirstPassing ==
  ASSUME NEW I \in SUBSET Nat, I # {}
  PROVE  R!Min(I) \in I
<1>1. PICK x \in I : \A y \in I : ~ (<<y, x>> \in OpToRel(<, Nat))
  BY NatLessThanWellFounded, WFMin
<1>2. \A y \in I : x <= y
  <2> SUFFICES ASSUME NEW y \in I PROVE x <= y
    OBVIOUS
  <2>1. ~ (<<y, x>> \in OpToRel(<, Nat))
    BY <1>1
  <2>2. x \in Nat /\ y \in Nat
    OBVIOUS
  <2>3. ~(y < x)
    BY <2>1, <2>2 DEF OpToRel
  <2> QED
    BY <2>2, <2>3
<1> QED
  BY <1>2 DEF R!Min

Found(z, I) == IF I = {} THEN "none" ELSE z.netifs[R!Min(I)].name

LEMMA FoundFacts ==
  ASSUME NEW z, NetifList(z.netifs), NEW I \in SUBSET (1..Len(z.netifs))
  PROVE  /\ I = {} => Found(z, I) = "none"
         /\ I # {} => /\ \E i \in I : i \in DOMAIN z.netifs /\ Found(z, I) = z.netifs[i].name
                      /\ Found(z, I) \in R!Names /\ Found(z, I) # "none"
<1>1. z.netifs \in Seq([name : R!Names, ip : Nat, len : Nat, up : BOOLEAN])
  BY DEF NetifList
<1>2. I # {} => R!Min(I) \in I
  BY FirstPassing, <1>1
<1>3. \A i \in I : i \in DOMAIN z.netifs /\ z.netifs[i].name \in R!Names
  <2> DEFINE l == z.netifs
  <2>1. l \in Seq([name : R!Names, ip : Nat, len : Nat, up : BOOLEAN])
    BY <1>1
  <2> HIDE DEF l
  <2>2. \A i \in 1..Len(l) : i \in DOMAIN l /\ l[i] \in [name : R!Names, ip : Nat, len : Nat, up : BOOLEAN]
    BY <2>1, ElementOfSeq, LenProperties
  <2> QED
    BY <2>2 DEF l
<1> QED
  BY <1>2, <1>3 DEF Found, R!Names

LEMMA ChosenIsFound ==
  ASSUME NEW z, NetifList(z.netifs), NEW I \in SUBSET (1..Len(z.netifs))
  PROVE  (IF (IF I # {} THEN R!Min(I) ELSE 0) = 0 THEN "none"
          ELSE z.netifs[IF I # {} THEN R!Min(I) ELSE 0].name) = Found(z, I)
<1>1. Len(z.netifs) \in Nat
  BY LenProperties DEF NetifList
<1>2. I \subseteq Nat /\ 0 \notin I
  BY <1>1
<1>3. I # {} => R!Min(I) \in I
  BY <1>2, FirstPassing
<1> QED
  BY <1>2, <1>3 DEF Found

LEMMA TunnelFound ==
  ASSUME NEW z, NetifList(z.netifs)
  PROVE  R!Wg(z) = Found(z, {i \in 1..Len(z.netifs) : R!InTailnet(z.netifs[i])})
<1> DEFINE I == {i \in 1..Len(z.netifs) : R!InTailnet(z.netifs[i])}
<1>1. R!Wg(z) = IF (IF I # {} THEN R!Min(I) ELSE 0) = 0 THEN "none"
              ELSE z.netifs[IF I # {} THEN R!Min(I) ELSE 0].name
  BY DEF R!Wg, R!NameOf, R!SelectInSeq
<1>2. I \in SUBSET (1..Len(z.netifs))
  OBVIOUS
<1> HIDE DEF I
<1>3. R!Wg(z) = Found(z, I)
  BY <1>1, <1>2, ChosenIsFound
<1> QED
  BY <1>3 DEF I

LEMMA AttachedFound ==
  ASSUME NEW z, NetifList(z.netifs)
  PROVE  R!Attached(z) = Found(z, {i \in 1..Len(z.netifs) :
           z.netifs[i].ip # 0 /\ ~R!InTailnet(z.netifs[i]) /\ R!OnLink(z, z.netifs[i])})
<1> DEFINE I == {i \in 1..Len(z.netifs) :
                   z.netifs[i].ip # 0 /\ ~R!InTailnet(z.netifs[i]) /\ R!OnLink(z, z.netifs[i])}
<1>1. R!Attached(z) = IF (IF I # {} THEN R!Min(I) ELSE 0) = 0 THEN "none"
              ELSE z.netifs[IF I # {} THEN R!Min(I) ELSE 0].name
  BY DEF R!Attached, R!NameOf, R!SelectInSeq
<1>2. I \in SUBSET (1..Len(z.netifs))
  OBVIOUS
<1> HIDE DEF I
<1>3. R!Attached(z) = Found(z, I)
  BY <1>1, <1>2, ChosenIsFound
<1> QED
  BY <1>3 DEF I

LEMMA UplinkFound ==
  ASSUME NEW z, NetifList(z.netifs)
  PROVE  R!UplinkOf(z) = Found(z, {i \in 1..Len(z.netifs) : R!UpSta(z.netifs[i])})
<1> DEFINE I == {i \in 1..Len(z.netifs) : R!UpSta(z.netifs[i])}
<1>1. R!UplinkOf(z) = IF (IF I # {} THEN R!Min(I) ELSE 0) = 0 THEN "none"
              ELSE z.netifs[IF I # {} THEN R!Min(I) ELSE 0].name
  BY DEF R!UplinkOf, R!NameOf, R!SelectInSeq
<1>2. I \in SUBSET (1..Len(z.netifs))
  OBVIOUS
<1> HIDE DEF I
<1>3. R!UplinkOf(z) = Found(z, I)
  BY <1>1, <1>2, ChosenIsFound
<1> QED
  BY <1>3 DEF I

LEMMA BoundFound ==
  ASSUME NEW z, NetifList(z.netifs)
  PROVE  R!Bound(z) = Found(z, {i \in 1..Len(z.netifs) :
           z.src # 0 /\ z.netifs[i].ip = z.src /\ z.netifs[i].up})
<1> DEFINE I == {i \in 1..Len(z.netifs) : z.src # 0 /\ z.netifs[i].ip = z.src /\ z.netifs[i].up}
<1>1. R!Bound(z) = IF (IF I # {} THEN R!Min(I) ELSE 0) = 0 THEN "none"
              ELSE z.netifs[IF I # {} THEN R!Min(I) ELSE 0].name
  BY DEF R!Bound, R!NameOf, R!SelectInSeq
<1>2. I \in SUBSET (1..Len(z.netifs))
  OBVIOUS
<1> HIDE DEF I
<1>3. R!Bound(z) = Found(z, I)
  BY <1>1, <1>2, ChosenIsFound
<1> QED
  BY <1>3 DEF I

(* The tunnel is the one netif in the tailnet's range; the uplink and an   *)
(* attached network are others.                                            *)
LEMMA NetifFacts ==
  ASSUME NEW z, NetifList(z.netifs)
  PROVE  /\ R!Wg(z) \in {"none", "wg"}
         /\ R!UplinkOf(z) \in {"none", "st"}
         /\ R!Wg(z) = "wg" => R!Attached(z) # "wg"
         /\ z.src = 0 \/ ~R!OwnAddress(z) => R!Bound(z) = "none"
<1> DEFINE V == {i \in 1..Len(z.netifs) : R!InTailnet(z.netifs[i])}
           A == {i \in 1..Len(z.netifs) :
                   z.netifs[i].ip # 0 /\ ~R!InTailnet(z.netifs[i]) /\ R!OnLink(z, z.netifs[i])}
           U == {i \in 1..Len(z.netifs) : R!UpSta(z.netifs[i])}
           B == {i \in 1..Len(z.netifs) : z.src # 0 /\ z.netifs[i].ip = z.src /\ z.netifs[i].up}
<1>1. /\ \A i, j \in DOMAIN z.netifs : z.netifs[i].name = z.netifs[j].name => i = j
      /\ \A i \in DOMAIN z.netifs : R!InTailnet(z.netifs[i]) => z.netifs[i].name = "wg"
      /\ DOMAIN z.netifs = 1..Len(z.netifs)
  BY DEF NetifList, R!InTailnet
<1>2. R!Wg(z) = Found(z, V) /\ R!Attached(z) = Found(z, A) /\ R!UplinkOf(z) = Found(z, U)
      /\ R!Bound(z) = Found(z, B)
  BY TunnelFound, AttachedFound, UplinkFound, BoundFound
<1>3. R!Wg(z) \in {"none", "wg"}
  <2>1. V = {} => Found(z, V) = "none"
    BY FoundFacts
  <2>2. V # {} => \E i \in V : i \in DOMAIN z.netifs /\ Found(z, V) = z.netifs[i].name
    BY FoundFacts
  <2> QED
    BY <1>1, <1>2, <2>1, <2>2
<1>4. R!UplinkOf(z) \in {"none", "st"}
  <2>1. U = {} => Found(z, U) = "none"
    BY FoundFacts
  <2>2. U # {} => \E i \in U : Found(z, U) = z.netifs[i].name
    BY FoundFacts
  <2> QED
    BY <1>2, <2>1, <2>2 DEF R!UpSta
<1>5. R!Wg(z) = "wg" => R!Attached(z) # "wg"
  <2> SUFFICES ASSUME R!Wg(z) = "wg", R!Attached(z) = "wg" PROVE FALSE
    OBVIOUS
  <2>1. V # {} /\ A # {}
    BY <1>2, FoundFacts
  <2>2. PICK i \in V : i \in DOMAIN z.netifs /\ Found(z, V) = z.netifs[i].name
    BY <2>1, FoundFacts
  <2>3. PICK k \in A : k \in DOMAIN z.netifs /\ Found(z, A) = z.netifs[k].name
    BY <2>1, FoundFacts
  <2>4. i = k
    BY <1>1, <1>2, <2>2, <2>3
  <2> QED
    BY <2>2, <2>3, <2>4
<1>6. z.src = 0 \/ ~R!OwnAddress(z) => R!Bound(z) = "none"
  <2> SUFFICES ASSUME z.src = 0 \/ ~R!OwnAddress(z) PROVE R!Bound(z) = "none"
    OBVIOUS
  <2>1. B = {}
    BY <1>1 DEF R!OwnAddress, R!Present
  <2> QED
    BY <1>2, <2>1, FoundFacts
<1> QED
  BY <1>3, <1>4, <1>5, <1>6

-----------------------------------------------------------------------------
(* What the three decisions say of one packet agrees, for every list of    *)
(* netifs, table of accepted routes and setting of the switches.           *)
LEMMA OneAnswer ==
  ASSUME NetifList(s.netifs), R!Tailnet \cap R!Private = {}
  PROVE  R!RoutesAgree
<1> DEFINE wg == R!Wg(s)  up == R!UplinkOf(s)  att == R!Attached(s)
<1>1. /\ wg \in {"none", "wg"} /\ up \in {"none", "st"} /\ (wg = "wg" => att # "wg")
      /\ s.src = 0 \/ ~R!OwnAddress(s) => R!Bound(s) = "none"
  BY NetifFacts
<1>2. R!ExplainAgrees
  BY <1>1 DEF R!ExplainAgrees, R!Explain, R!Explained, R!Route, R!Hook, R!SelfOrigin, R!Local, R!Tunnelled
<1>3. R!SelfPublicOutside
  <2> SUFFICES ASSUME s.exit, up # "none", R!SelfOrigin(s), s.dst \in R!Public, wg # "none"
               PROVE  R!Route(s) # wg
    BY DEF R!SelfPublicOutside, R!Tunnelled, R!Local, R!SelfOrigin
  <2>1. s.dst \notin R!Tailnet /\ s.dst \notin R!Private /\ wg = "wg" /\ up = "st"
    BY <1>1 DEF R!Public
  <2>2. R!Split(s) = up
    BY <2>1 DEF R!Split
  <2>3. ~(s.src # 0 /\ ~R!OwnAddress(s))
    BY DEF R!SelfOrigin
  <2>4. R!Hook(s) = IF s.bypass /\ R!Lan(s) # "none" THEN R!Lan(s) ELSE up
    BY <2>1, <2>2, <2>3 DEF R!Hook
  <2>5. R!Lan(s) # "none" => R!Lan(s) = att
    BY <2>1 DEF R!Lan
  <2> QED
    BY <1>1, <2>1, <2>4, <2>5 DEF R!Route
<1>4. R!ForwardedPublicInside
  <2> SUFFICES ASSUME s.exit, R!WgUp(s), ~R!SelfOrigin(s), s.dst \in R!Public
               PROVE  R!Route(s) = wg \/ (s.bypass /\ R!Route(s) = att)
    BY DEF R!ForwardedPublicInside, R!Local, R!SelfOrigin
  <2>0. wg # "none"
    <3>1. \E n \in R!Present(s) : n.name = wg
      BY DEF R!WgUp
    <3>2. \A n \in R!Present(s) : n.name # "none"
      <4> DEFINE l == s.netifs
      <4>1. l \in Seq([name : R!Names, ip : Nat, len : Nat, up : BOOLEAN])
        BY DEF NetifList
      <4>2. R!Present(s) = {l[i] : i \in DOMAIN l}
        BY DEF R!Present
      <4> HIDE DEF l
      <4>0. DOMAIN l = 1..Len(l)
        BY <4>1, LenProperties
      <4>3. \A i \in DOMAIN l : l[i] \in [name : R!Names, ip : Nat, len : Nat, up : BOOLEAN]
        BY <4>0, <4>1, ElementOfSeq
      <4> QED
        BY <4>2, <4>3 DEF R!Names
    <3> QED
      BY <3>1, <3>2
  <2>1. s.dst \notin R!Tailnet /\ s.dst \notin R!Private
    BY DEF R!Public
  <2>2. R!Split(s) = wg
    BY <2>1 DEF R!Split
  <2>3. R!Lan(s) # "none" => R!Lan(s) = att
    BY <2>1 DEF R!Lan
  <2>4. R!Hook(s) = wg \/ (s.bypass /\ R!Lan(s) # "none" /\ R!Hook(s) = R!Lan(s))
    BY <2>0, <2>1, <2>2 DEF R!Hook
  <2> QED
    BY <2>0, <2>3, <2>4 DEF R!Route
<1>5. R!LanStaysOutside
  <2> SUFFICES ASSUME s.exit, s.bypass, s.dst \in R!Private, wg # "none", up # "none", ~R!Accepted(s)
               PROVE  R!Route(s) # wg
    BY DEF R!LanStaysOutside, R!Tunnelled
  <2>1. s.dst \notin R!Tailnet /\ wg = "wg" /\ up = "st"
    BY <1>1
  <2>2. R!Lan(s) # "none" /\ R!Lan(s) # "wg"
    BY <1>1, <2>1 DEF R!Lan
  <2>3. R!Hook(s) = R!Lan(s)
    BY <2>1, <2>2 DEF R!Hook
  <2> QED
    BY <2>1, <2>2, <2>3 DEF R!Route
<1>6. R!SourceKept
  <2> SUFFICES ASSUME NEW p \in [from : {"ap", "wg"}, rule : {FALSE}, tcp : BOOLEAN, snat : BOOLEAN]
               PROVE  /\ p.tcp /\ s.dst \in R!Tailnet => ~R!Translated(s, p)
                      /\ p.from = "ap" /\ ~(p.tcp /\ s.dst \in R!Tailnet) => R!Translated(s, p)
                      /\ p.from = "wg" /\ p.snat /\ s.dst \notin R!Tailnet /\ R!Tunnelled
                           /\ R!Route(s) = "st" => R!Translated(s, p)
    BY DEF R!SourceKept
  <2>1. ~R!Flow(s, p) /\ (R!Tunnelled => wg = "wg")
    BY <1>1 DEF R!Flow, R!Tunnelled
  <2> QED
    BY <2>1 DEF R!Translated, R!KeepsSource, R!SourceNat
<1> QED
  BY <1>2, <1>3, <1>4, <1>5, <1>6 DEF R!RoutesAgree

(* The hook that lwIP asks, its explanation on the diagnostics page and    *)
(* the decision to translate agree on every packet: for any list of netifs *)
(* with the tunnel alone in the tailnet's range, any table of accepted     *)
(* routes, any switches and addresses of any width.                        *)
THEOREM RoutesTrue == ControlSpec => []RoutesAgree
<1> DEFINE Known == on = "routes" => s.netifs \in Interfaces
           steps == <<on, wv, vars, tv, s, lv, cv>>
<1>1. ControlInit => Known
  BY DEF ControlInit, R!Init, R!Plain
<1>2. Known /\ [ControlNext]_steps => Known'
  <2> SUFFICES ASSUME Known, [ControlNext]_steps PROVE Known'
    OBVIOUS
  <2>1. on' = on /\ (s' = s \/ R!Next)
    BY DEF ControlNext
  <2>2. R!Next => s'.netifs = s.netifs
    BY DEF R!Next
  <2> QED
    BY <2>1, <2>2
<1>3. Known => RoutesAgree
  BY OneAnswer, RoutesAssumption DEF RoutesAgree
<1> QED
  BY <1>1, <1>2, <1>3, PTL DEF ControlSpec
=============================================================================
