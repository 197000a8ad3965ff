----------------------------- MODULE MCControl ------------------------------
(* What the web interface rests on, one component at a time: its sessions, *)
(* the password, the settings of the tailnet and the routes they lead to,  *)
(* and the rings of the log.  In the models they share no state: "on" says *)
(* which of them runs, and the others stay where they began.               *)
EXTENDS WebPassword, Integers, Sequences

CONSTANTS
  Slots, Buckets, Places, Peers, Timeouts, Ttl, MaxNow,  \* WebSession
  MaxTokens, MaxNonces, MaxFails, SessionEdits,
  Exits, Sizes, MaxChanges, NvsMayFail,                             \* TailscaleSettings
  Cap, MaxLine, TailSize, MaxSeq, MaxBoots,                         \* LogRing
  Loggers, RtcCap, MaxBytes, MaxCrashes,                            \* CrashRing
  Width, Interfaces, RouteTables                                    \* RouteHook

ASSUME SessionAssumption ==
  /\ Slots \subseteq Nat /\ Buckets \subseteq Nat /\ Buckets # {} /\ Places \subseteq Nat
  /\ Timeouts \subseteq Nat /\ {Ttl, MaxTokens, MaxNonces} \subseteq Nat /\ "none" \notin Peers
ASSUME LogAssumption ==
  Cap \in Nat \ {0} /\ MaxLine \in Nat /\ MaxLine <= Cap /\ TailSize \in Nat /\ MaxSeq \in Nat
ASSUME RingAssumption == RtcCap \in Nat \ {0} /\ "nobody" \notin Loggers

VARIABLES
  on,
  now, webRecord, gate, window, session, guard, challenge, tokens, nonces, edits,
  opened, redeemed, bad, cliChanged,
  ram, nvs, http, errs, answer, mq, pending, rc, registered, changes, crossed,
  missed, saved,
  s,
  live, seq, page, reply, tail, wiped, torn, boots,
  rtc, line, holder, panic, snapshot, bytes, said, before, crashes

wv == <<now, webRecord, gate, window, session, guard, challenge, tokens, nonces, edits,
        opened, redeemed, bad, cliChanged>>
tv == <<ram, nvs, http, errs, answer, mq, pending, rc, registered, changes, crossed,
        missed, saved>>
lv == <<live, seq, page, reply, tail, wiped, torn, boots>>
cv == <<rtc, line, holder, panic, snapshot, bytes, said, before, crashes>>

W == INSTANCE WebSession WITH MaxEdits <- SessionEdits, record <- webRecord
T == INSTANCE TailscaleSettings WITH reply <- answer, overlapped <- crossed
L == INSTANCE LogRing
R == INSTANCE MCRoute
(* A list of netifs as the router has them: no two of a name, and no other *)
(* netif than the tunnel with an address in the tailnet's range.           *)
NetifList(l) ==
  /\ l \in Seq([name : R!Names, ip : Nat, len : Nat, up : BOOLEAN])
  /\ \A i, j \in DOMAIN l : l[i].name = l[j].name => i = j
  /\ \A i \in DOMAIN l : l[i].ip \in R!Tailnet => l[i].name = "wg"
ASSUME RoutesAssumption ==
  (\A l \in Interfaces : NetifList(l)) /\ R!Tailnet \cap R!Private = {}

C == INSTANCE CrashRing WITH
  seq <- bytes, boots <- crashes, Tasks <- Loggers, MaxSeq <- MaxBytes, MaxBoots <- MaxCrashes

(* A component that does not run has one of its initial states.  The two   *)
(* passwords are interchangeable: the stored one, if any, is called "x".   *)
ControlInit ==
  /\ on \in {"sessions", "password", "settings", "routes", "log", "crash"}
  /\ W!Init /\ (on # "sessions" => ~gate /\ window = 0 /\ webRecord.kind = "none")
  /\ Init /\ (on # "password" => record.kind = "none")
  /\ webRecord.pw # "y" /\ record.pw # "y"
  /\ T!Init /\ L!Init /\ C!Init
  /\ IF on = "routes" THEN R!Init ELSE s = R!Plain

ControlNext ==
  \/ on = "sessions" /\ W!Next /\ UNCHANGED <<on, vars, tv, s, lv, cv>>
  \/ on = "password" /\ Next /\ UNCHANGED <<on, wv, tv, s, lv, cv>>
  \/ on = "settings" /\ T!Next /\ UNCHANGED <<on, wv, vars, s, lv, cv>>
  \/ on = "routes" /\ R!Next /\ UNCHANGED <<on, wv, vars, tv, lv, cv>>
  \/ on = "log" /\ L!Next /\ UNCHANGED <<on, wv, vars, tv, s, cv>>
  \/ on = "crash" /\ C!Next /\ UNCHANGED <<on, wv, vars, tv, s, lv>>

ControlSpec == ControlInit /\ [][ControlNext]_<<on, wv, vars, tv, s, lv, cv>>

(* The lists that the run checks: the tunnel before and after the others,  *)
(* up or down, with an address or none yet; tables with a default route.   *)
Sta(ip, up) == [name |-> "st", ip |-> ip, len |-> 3, up |-> up]
Ap == [name |-> "ap", ip |-> 4, len |-> 3, up |-> TRUE]
Tun(ip, up) == [name |-> "wg", ip |-> ip, len |-> 2, up |-> up]
SomeInterfaces == {<<Ap>>} \cup
  UNION {{<<Sta(i, u), Ap>>, <<Tun(0, v), Sta(i, u), Ap>>,
          <<Tun(12, v), Sta(i, u), Ap>>, <<Ap, Tun(12, v), Sta(i, u)>>} :
         i \in {6, 8}, u, v \in BOOLEAN}
SomeTables == {<<>>, <<[net |-> 8, len |-> 2]>>, <<[net |-> 0, len |-> 0], [net |-> 4, len |-> 4]>>}

-----------------------------------------------------------------------------
(* The properties of the components that are instances here, each while   *)
(* it runs: sessions, challenges and guesses,                             *)
SignInSound == on = "sessions" => W!SignInSound
NoRevival == W!NoRevival
(* the settings of the tailnet and the routes they lead to,               *)
SettingsHold == on = "settings" => T!SettingsHold
RoutesAgree == on = "routes" => R!RoutesAgree
(* and the log as its readers and the next boot see it.                   *)
ServesTheWindow == L!ServesTheWindow
ReadersToldTruly == on = "log" => L!ReadersToldTruly
SnapshotIsTheEnd == on = "crash" => C!SnapshotIsTheEnd
=============================================================================
