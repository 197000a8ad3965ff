----------------------------- MODULE WebPassword ----------------------------
(* The admin password (components/web_password/web_password.c): one record *)
(* in NVS, a cache of the password verified last, and two calls that the   *)
(* HTTP server, the remote console and the command line make from tasks of *)
(* their own. A salt and a hash stand for the password they were made of.  *)
EXTENDS Integers

CONSTANTS
  Passwords,
  Tasks,      \* tasks that verify or set
  MaxCalls    \* bound: calls made

VARIABLES
  record,     \* NVS "web_password": [kind, pw]
  cache,      \* s_fast_cache: the password, or "none" when not valid
  call,       \* per task: [pc, pw, seen, answer], the call it is in
  calls,      \* bound
  set,        \* history: the password the last call that stored one was given
  overlapped  \* history: a call began while another one ran

vars == <<record, cache, call, calls, set, overlapped>>

NoPassword == [kind |-> "none", pw |-> "none"]
Call(pc, pw, seen, answer) == [pc |-> pc, pw |-> pw, seen |-> seen, answer |-> answer]
Idle == Call("idle", "none", NoPassword, FALSE)
Stored(pw) == [kind |-> IF pw = "none" THEN "none" ELSE "proof", pw |-> pw]

Init ==
  /\ record \in {NoPassword} \cup [kind : {"legacy", "proof"}, pw : Passwords]
  /\ cache = "none" /\ call = [t \in Tasks |-> Idle] /\ calls = 0
  /\ set = record.pw /\ overlapped = FALSE

Busy(t) == {u \in Tasks \ {t} : call[u].pc # "idle"}

Begin(t, pc, pw) ==
  /\ call[t].pc = "idle" /\ calls < MaxCalls /\ calls' = calls + 1
  /\ call' = [call EXCEPT ![t] = Call(pc, pw, NoPassword, FALSE)]
  /\ overlapped' = (overlapped \/ Busy(t) # {})
  /\ UNCHANGED <<record, cache, set>>

Goto(t, pc, seen, answer) ==
  /\ call' = [call EXCEPT ![t] = Call(pc, call[t].pw, seen, answer)]
  /\ UNCHANGED <<calls, overlapped>>

(* verify_web_password: a match with the cache is enough. *)
Match(t) ==
  /\ call[t].pc = "match" /\ UNCHANGED <<record, cache, set>>
  /\ \/ cache = call[t].pw /\ Goto(t, "done", call[t].seen, TRUE)
     \/ cache # call[t].pw /\ Goto(t, "read", call[t].seen, FALSE)

Read(t) ==
  /\ call[t].pc = "read" /\ Goto(t, "derive", record, FALSE)
  /\ UNCHANGED <<record, cache, set>>

(* The record read is tested, for modern ones in a second of PBKDF2. A     *)
(* legacy record that matched is rewritten by set_web_password_hashed.     *)
Agrees(rec, pw) == rec.kind # "none" /\ rec.pw = pw

Derive(t) ==
  /\ call[t].pc = "derive" /\ UNCHANGED <<record, cache, set>>
  /\ LET seen == call[t].seen IN
     \/ ~Agrees(seen, call[t].pw) /\ Goto(t, "done", seen, FALSE)
     \/ Agrees(seen, call[t].pw)
        /\ Goto(t, IF seen.kind = "proof" THEN "seed" ELSE "invalidate", seen, TRUE)

(* set_web_password_hashed: the cache is dropped, the record is written,   *)
(* and the cache is seeded when that succeeded or when a login upgraded a  *)
(* legacy record; clearing the password seeds nothing.                     *)
Dropped_Kept == cache
Dropped == "none"

Invalidate(t) ==
  /\ call[t].pc = "invalidate" /\ cache' = Dropped
  /\ Goto(t, "write", call[t].seen, call[t].answer) /\ UNCHANGED <<record, set>>

Write(t) ==
  /\ call[t].pc = "write" /\ UNCHANGED cache
  /\ \/ /\ record' = Stored(call[t].pw)
        /\ set' = IF call[t].answer THEN set ELSE call[t].pw
        /\ Goto(t, IF call[t].pw = "none" THEN "done" ELSE "seed", call[t].seen, call[t].answer)
     \/ /\ UNCHANGED <<record, set>>
        /\ Goto(t, IF call[t].answer THEN "seed" ELSE "done", call[t].seen, call[t].answer)

Seed(t) ==
  /\ call[t].pc = "seed" /\ cache' = call[t].pw
  /\ Goto(t, "done", call[t].seen, call[t].answer) /\ UNCHANGED <<record, set>>

Return(t) ==
  /\ call[t].pc = "done" /\ call' = [call EXCEPT ![t] = Idle]
  /\ UNCHANGED <<record, cache, set, calls, overlapped>>

(* A reset keeps only the record. *)
Reset ==
  /\ cache' = "none" /\ call' = [t \in Tasks |-> Idle]
  /\ UNCHANGED <<record, calls, set, overlapped>>

Next ==
  \/ \E t \in Tasks :
       \/ \E pw \in Passwords : Begin(t, "match", pw)
       \/ \E pw \in Passwords \cup {"none"} : Begin(t, "invalidate", pw)
       \/ Match(t) \/ Read(t) \/ Derive(t)
       \/ Invalidate(t) \/ Write(t) \/ Seed(t) \/ Return(t)
  \/ Reset

Spec == Init /\ [][Next]_vars

-----------------------------------------------------------------------------
Quiet == \A t \in Tasks : call[t].pc = "idle"

(* No verifier survives a change or a clear: between calls, what the cache *)
(* accepts is the stored password.                                         *)
CacheCurrent == Quiet /\ cache # "none" => cache = record.pw

(* The same, when no call ever ran beside another one: also when a write   *)
(* fails, and across resets.                                               *)
CacheCurrentAlone == ~overlapped => CacheCurrent

(* The record holds what the last successful change was given: an upgrade  *)
(* of a legacy record alters its form and not the password.                *)
LastChangeWins == ~overlapped => record.pw = set

(* A verification answers yes only to the stored password, when nothing    *)
(* ran beside it.                                                          *)
AnswersTruthfully ==
  ~overlapped => \A t \in Tasks :
    call[t].pc = "done" /\ call[t].answer => call[t].pw = record.pw

(* A change of the password takes hold: it is stored as it was given, and *)
(* neither the cache nor an upgrade lets the old one in again, as long as *)
(* no call ran beside another.                                            *)
ChangeHolds == CacheCurrentAlone /\ LastChangeWins /\ AnswersTruthfully
=============================================================================
