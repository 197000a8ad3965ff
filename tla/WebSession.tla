----------------------------- MODULE WebSession -----------------------------
(* The web interface's sign-in (main/web_ui.c): the session table, the     *)
(* login guard, the login challenges, and the handlers that use them. The  *)
(* HTTP server is one task, so a handler is one action; the command line   *)
(* changes the password from another task. A verification compares with    *)
(* the stored password (module WebPassword has its cache).                 *)
EXTENDS Integers, FiniteSets

CONSTANTS
  Slots, Buckets, Places,  \* WEB_UI_SESSION_MAX, LOGIN_GUARD_SLOTS,
                           \* LOGIN_CHALLENGE_SLOTS, as intervals 1..n
  Peers, Passwords,
  Timeouts,                \* idle windows in seconds, 0 for none
  Ttl,                     \* LOGIN_CHALLENGE_TTL_US
  MaxNow, MaxTokens, MaxNonces, MaxFails, MaxEdits  \* bounds

VARIABLES
  now,
  record,    \* [kind, pw]: the stored password, "none", "legacy" or "proof"
  gate,      \* s_web_auth_enabled
  window,    \* s_session_timeout_s
  session,   \* s_sessions: [tok, exp], tok = 0 when unused
  guard,     \* s_login_guards: [peer, fails, until, seen], seen = 0 when unused
  challenge, \* s_login_challenges: [peer, nonce, exp]
  tokens, nonces,   \* tokens and nonces drawn so far
  edits,     \* bound: password and setting changes
  opened,    \* history: the password each token was given for
  redeemed,  \* history: logins by each nonce
  bad,       \* history: failures of a peer within this second
  cliChanged \* history: the command line changed the password

secrets == <<record, gate, window>>
drawn == <<tokens, nonces, opened, redeemed>>
vars == <<now, secrets, session, guard, challenge, drawn, edits, bad, cliChanged>>

Forever == 1000   \* UINT64_MAX
NoSession == [tok |-> 0, exp |-> 0]
NoGuard == [peer |-> "none", fails |-> 0, until |-> 0, seen |-> 0]
NoChallenge == [peer |-> "none", nonce |-> 0, exp |-> 0]
NoPassword == [kind |-> "none", pw |-> "none"]
Tokens == 1..MaxTokens

(* is_web_password_set, verify_web_password_proof *)
IsSet == record.kind # "none"
Verifies(pw) == IsSet /\ record.pw = pw
(* web_password_get_proof_params: a record in the modern form. *)
Supported == record.kind = "proof"
Expiry(w) == IF w = 0 THEN Forever ELSE now + w

Init ==
  /\ now = 1 /\ gate \in BOOLEAN /\ window \in Timeouts
  /\ record \in {NoPassword} \cup [kind : {"legacy", "proof"}, pw : Passwords]
  /\ session = [i \in Slots |-> NoSession]
  /\ guard = [b \in Buckets |-> NoGuard] /\ challenge = [c \in Places |-> NoChallenge]
  /\ tokens = 0 /\ nonces = 0 /\ edits = 0 /\ cliChanged = FALSE
  /\ opened = [t \in Tokens |-> "none"] /\ redeemed = [n \in 1..MaxNonces |-> 0]
  /\ bad = [p \in Peers |-> 0]

Live(i) == session[i].tok # 0 /\ now < session[i].exp
Of(t) == {i \in Slots : Live(i) /\ session[i].tok = t}
First(S) == CHOOSE i \in S : \A j \in S : i <= j

(* session_pick_new_slot: an empty slot, else the earliest expiry; the     *)
(* first slot when none expires.                                           *)
NewSlot ==
  LET empty == {i \in Slots : session[i].tok = 0}
      due == {i \in Slots : session[i].exp < Forever}
  IN  IF empty # {} THEN First(empty)
      ELSE IF due = {} THEN First(Slots)
      ELSE First({i \in due : \A j \in due : session[i].exp <= session[j].exp})

(* session_create, for a client that showed pw. *)
Create(pw) ==
  /\ tokens < MaxTokens /\ tokens' = tokens + 1
  /\ session' = [session EXCEPT ![NewSlot] = [tok |-> tokens', exp |-> Expiry(window)]]
  /\ opened' = [opened EXCEPT ![tokens'] = pw]

Cleared_One == [session EXCEPT ![First(Slots)] = NoSession]
Cleared == [i \in Slots |-> NoSession]   \* session_clear_all

(* session_extend_all_alive *)
Extended_Any(w) == [i \in Slots |-> IF session[i].tok # 0
                                    THEN [session[i] EXCEPT !.exp = Expiry(w)] ELSE session[i]]
Extended(w) == [i \in Slots |-> IF Live(i) THEN [session[i] EXCEPT !.exp = Expiry(w)] ELSE session[i]]

(* request_authenticated slides the window of the session it finds. *)
Open == ~gate \/ ~IsSet
Authenticated(t) == Open \/ Of(t) # {}
Slid(t) ==
  IF Open THEN session
  ELSE [i \in Slots |-> IF i \in Of(t) THEN [session[i] EXCEPT !.exp = Expiry(window)] ELSE session[i]]

-----------------------------------------------------------------------------
(* login_guard_for: the peer's bucket, else a free one, else the one that  *)
(* was not used for longest, which its peer loses.                         *)
Bucket(p) ==
  LET own == {b \in Buckets : guard[b].peer = p /\ guard[b].seen # 0}
      free == {b \in Buckets : guard[b].seen = 0}
  IN  IF own # {} THEN First(own)
      ELSE IF free # {} THEN First(free)
      ELSE First({b \in Buckets : \A c \in Buckets : guard[b].seen <= guard[c].seen})

Seen(p) ==
  LET g == guard[Bucket(p)]
  IN  IF g.peer = p THEN [g EXCEPT !.seen = now] ELSE [NoGuard EXCEPT !.peer = p, !.seen = now]
Touched(p) == [guard EXCEPT ![Bucket(p)] = Seen(p)]
Evicted(p) == {guard[Bucket(p)].peer} \ {p}
Rejected(p) == now < Seen(p).until

(* login_guard_failed: from the third failure on 1, 2, 4, .. 60 seconds. *)
Delay(fails) == IF fails < 3 THEN 0 ELSE IF fails >= 9 THEN 60 ELSE <<1, 2, 4, 8, 16, 32>>[fails - 2]
Failed(p) ==
  LET g == Seen(p)  d == Delay(g.fails + 1)
  IN  [guard EXCEPT ![Bucket(p)] =
        [g EXCEPT !.fails = @ + 1, !.until = IF d = 0 THEN @ ELSE now + d]]

Forgotten(p) == [q \in Peers |-> IF q \in Evicted(p) THEN 0 ELSE bad[q]]

Reject(p) ==
  /\ guard' = Touched(p) /\ bad' = Forgotten(p)
  /\ UNCHANGED <<now, secrets, session, challenge, drawn, edits, cliChanged>>

Fail(p) ==
  /\ Seen(p).fails < MaxFails
  /\ guard' = Failed(p) /\ bad' = [Forgotten(p) EXCEPT ![p] = @ + 1]
  /\ UNCHANGED <<now, secrets, session, edits, cliChanged>>

Pass(p) ==
  /\ guard' = [guard EXCEPT ![Bucket(p)] = NoGuard]
  /\ bad' = [Forgotten(p) EXCEPT ![p] = 0]

-----------------------------------------------------------------------------
(* login_challenge_issue: an expired place, else the earliest to expire. *)
Place ==
  LET due == {c \in Places : now >= challenge[c].exp}
  IN  IF due # {} THEN First(due)
      ELSE First({c \in Places : \A d \in Places : challenge[c].exp <= challenge[d].exp})

(* auth_challenge_handler *)
Challenge(p) ==
  /\ ~Rejected(p) /\ guard' = Touched(p) /\ bad' = Forgotten(p)
  /\ IF Supported
     THEN /\ nonces < MaxNonces /\ nonces' = nonces + 1
          /\ challenge' = [challenge EXCEPT ![Place] =
                            [peer |-> p, nonce |-> nonces', exp |-> now + Ttl]]
     ELSE UNCHANGED <<nonces, challenge>>
  /\ UNCHANGED <<now, secrets, session, tokens, opened, redeemed, edits, cliChanged>>

(* login_challenge_consume *)
Consumed(c) == [challenge EXCEPT ![c] = NoChallenge]
Matching(p, n) ==
  {c \in Places : challenge[c].exp > now /\ challenge[c].peer = p /\ challenge[c].nonce = n}

(* auth_login_handler with a proof; one made for a record since replaced   *)
(* is a wrong password. A nonce is spent by a wrong proof too.             *)
LoginProof(p, n, pw) ==
  /\ ~Rejected(p)
  /\ challenge' = IF Matching(p, n) = {} THEN challenge ELSE Consumed(First(Matching(p, n)))
  /\ IF Matching(p, n) # {} /\ Supported /\ Verifies(pw)
     THEN /\ Pass(p) /\ Create(pw)
          /\ redeemed' = [redeemed EXCEPT ![n] = @ + 1]
          /\ UNCHANGED <<now, secrets, nonces, edits, cliChanged>>
     ELSE Fail(p) /\ UNCHANGED drawn

(* ... with a plain password, refused without a verdict when the record    *)
(* supports a proof. A verified legacy record is upgraded unless NVS fails.*)
LoginPlain(p, pw) ==
  /\ ~Rejected(p)
  /\ IF Supported THEN Reject(p)
     ELSE IF Verifies(pw)
     THEN /\ Pass(p) /\ Create(pw)
          /\ record' \in {record, [record EXCEPT !.kind = "proof"]}
          /\ UNCHANGED <<now, gate, window, challenge, nonces, redeemed, edits, cliChanged>>
     ELSE Fail(p) /\ UNCHANGED <<challenge, drawn>>

(* login_guard_reject answers 429 to a challenge, a login or a change. *)
TooMany(p) == Rejected(p) /\ Reject(p)

-----------------------------------------------------------------------------
Edit == edits < MaxEdits /\ edits' = edits + 1
Stored(pw) == [kind |-> "proof", pw |-> pw]

(* auth_setup_handler, through the access point only. *)
Setup(pw) ==
  /\ ~IsSet /\ Edit /\ record' = Stored(pw) /\ Create(pw)
  /\ UNCHANGED <<now, gate, window, guard, challenge, nonces, redeemed, bad, cliChanged>>

(* auth_change_password_handler: a wrong old password counts as a failed   *)
(* login; a failed write keeps password and sessions.                      *)
ChangePassword(t, p, old, pw) ==
  /\ Authenticated(t) /\ ~Rejected(p)
  /\ IF Verifies(old)
     THEN /\ Edit
          /\ \/ /\ record' = Stored(pw) /\ session' = Cleared /\ Pass(p)
             \/ /\ record' \in {record, [record EXCEPT !.kind = "proof"]}
                /\ session' = Slid(t) /\ guard' = Touched(p) /\ bad' = Forgotten(p)
          /\ UNCHANGED <<now, gate, window, challenge, drawn, cliChanged>>
     ELSE /\ Seen(p).fails < MaxFails /\ session' = Slid(t) /\ guard' = Failed(p)
          /\ bad' = [Forgotten(p) EXCEPT ![p] = @ + 1]
          /\ UNCHANGED <<now, secrets, challenge, drawn, edits, cliChanged>>

(* auth_clear_password_handler needs a session even with the gate open;    *)
(* its sessions end whether or not the write succeeds.                     *)
ClearPassword(t) ==
  /\ IsSet /\ Of(t) # {} /\ Edit
  /\ record' \in {record, NoPassword} /\ session' = Cleared
  /\ UNCHANGED <<now, gate, window, guard, challenge, drawn, bad, cliChanged>>

(* The command "web_password", on the serial or the remote console. *)
CliPassword(pw) ==
  /\ Edit /\ cliChanged' = TRUE
  /\ record' = IF pw = "none" THEN NoPassword ELSE Stored(pw)
  /\ UNCHANGED <<now, gate, window, session, guard, challenge, drawn, bad>>

(* Any handler behind require_auth. *)
Request(t) ==
  /\ Authenticated(t) /\ session' = Slid(t)
  /\ UNCHANGED <<now, secrets, guard, challenge, drawn, edits, bad, cliChanged>>

Logout(t) ==
  /\ session' = [i \in Slots |-> IF i \in Of(t) THEN NoSession ELSE session[i]]
  /\ UNCHANGED <<now, secrets, guard, challenge, drawn, edits, bad, cliChanged>>

(* system_save_handler: the idle window and the gate. *)
SaveWindow(t, w) ==
  /\ Authenticated(t) /\ Edit /\ window' = w /\ session' = Extended(w)
  /\ UNCHANGED <<now, record, gate, guard, challenge, drawn, bad, cliChanged>>

SaveGate(t, on) ==
  /\ Authenticated(t) /\ Edit /\ gate' = on /\ session' = Slid(t)
  /\ UNCHANGED <<now, record, window, guard, challenge, drawn, bad, cliChanged>>

Second ==
  /\ now < MaxNow /\ now' = now + 1 /\ bad' = [p \in Peers |-> 0]
  /\ UNCHANGED <<secrets, session, guard, challenge, drawn, edits, cliChanged>>

Next ==
  \/ \E p \in Peers : Challenge(p) \/ TooMany(p)
  \/ \E p \in Peers, pw \in Passwords :
       \/ LoginPlain(p, pw)
       \/ \E n \in 1..MaxNonces : LoginProof(p, n, pw)
  \/ \E t \in Tokens :
       \/ Request(t) \/ Logout(t) \/ ClearPassword(t)
       \/ \E w \in Timeouts : SaveWindow(t, w)
       \/ \E on \in BOOLEAN : SaveGate(t, on)
       \/ \E p \in Peers, old, pw \in Passwords : ChangePassword(t, p, old, pw)
  \/ \E pw \in Passwords : Setup(pw)
  \/ \E pw \in Passwords \cup {"none"} : CliPassword(pw)
  \/ Second

Spec == Init /\ [][Next]_vars

-----------------------------------------------------------------------------
(* Unless the command line changed it, every session that still            *)
(* authenticates was opened with the password in force: changing or        *)
(* clearing the password ends the sessions of every tab.                   *)
SessionsFollowPassword ==
  ~cliChanged => \A i \in Slots : Live(i) => IsSet /\ opened[session[i].tok] = record.pw

(* A nonce opens at most one session: a proof captured on the wire cannot  *)
(* be presented again.                                                     *)
NonceOnce == \A n \in 1..MaxNonces : redeemed[n] <= 1

(* While a peer keeps its bucket, it has at most three verdicts of "wrong" *)
(* within a second, at logins and password changes together.               *)
Throttled == \A p \in Peers : bad[p] <= 3

(* A session that expired, was ended or was displaced never authenticates  *)
(* again, whatever is done to the idle window afterwards.                  *)
Ended(t) == t <= tokens /\ Of(t) = {}
NoRevival == [][\A t \in Tokens : Ended(t) => Ended(t)']_vars

(* A sign-in is worth what the password in force is worth: sessions rest  *)
(* on it, challenges are used up, and guesses are slowed down.            *)
SignInSound == SessionsFollowPassword /\ NonceOnce /\ Throttled
=============================================================================
