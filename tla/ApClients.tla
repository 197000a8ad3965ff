----------------------------- MODULE ApClients -----------------------------
(* The stations of the AP: the driver's association list, the events that  *)
(* the event loop handles later (main/main.c), the MAC deny list           *)
(* (main/mac_deny.c) and the two handlers of the web UI that deauthenticate*)
(* stations (main/web_ui.c).                                               *)
EXTENDS Integers, Sequences, FiniteSets, SequencesExt

CONSTANTS
  Macs,        \* stations
  Aids,        \* association ids the driver hands out
  MaxJoins,    \* bound: associations
  MaxSaves     \* bound: edits of the deny list and kicks by hand

VARIABLES
  assoc,         \* driver: per association id, the station or "none"
  events,        \* events posted and not yet handled: Seq([joined, mac, aid])
  deauthing,     \* event loop: id it is about to deauthenticate, or 0
  deny, denyNvs, \* mac_deny.c: s_table and its NVS blob
  http,          \* httpd: [pc, new, kick, aid]
  count,         \* connect_count
  joins, saves, failed  \* history: bounds; a write to NVS failed

driver == <<assoc, events>>
denials == <<deny, denyNvs, failed>>
vars == <<driver, deauthing, denials, http, count, joins, saves>>

Resting == [pc |-> "idle", new |-> {}, kick |-> {}, aid |-> 0]
Stations == {assoc[a] : a \in Aids} \ {"none"}

Init ==
  /\ assoc = [a \in Aids |-> "none"] /\ events = <<>> /\ deauthing = 0
  /\ denyNvs \in SUBSET Macs /\ deny = denyNvs
  /\ http = Resting /\ count = 0 /\ joins = 0 /\ saves = 0 /\ failed = FALSE

Event(joined, m, a) == [joined |-> joined, mac |-> m, aid |-> a]

(* A station of the driver's list leaves; its event is posted. *)
Dropped(a) ==
  IF assoc[a] = "none"
  THEN UNCHANGED driver
  ELSE /\ assoc' = [assoc EXCEPT ![a] = "none"]
       /\ events' = Append(events, Event(FALSE, assoc[a], a))

-----------------------------------------------------------------------------
Join(m, a) ==
  /\ m \notin Stations /\ assoc[a] = "none" /\ joins < MaxJoins
  /\ assoc' = [assoc EXCEPT ![a] = m] /\ joins' = joins + 1
  /\ events' = Append(events, Event(TRUE, m, a))
  /\ UNCHANGED <<deauthing, denials, http, count, saves>>

Leave(a) ==
  /\ assoc[a] # "none" /\ Dropped(a)
  /\ UNCHANGED <<deauthing, denials, http, count, joins, saves>>

(* wifi_event_handler: a station of the deny list, as it reads now, is not *)
(* counted and is to be deauthenticated.                                   *)
Blocked(m) == m \in deny

HandleJoined ==
  /\ deauthing = 0 /\ events # <<>> /\ Head(events).joined
  /\ events' = Tail(events)
  /\ IF Blocked(Head(events).mac)
     THEN deauthing' = Head(events).aid /\ UNCHANGED count
     ELSE count' = count + 1 /\ UNCHANGED deauthing
  /\ UNCHANGED <<assoc, denials, http, joins, saves>>

(* esp_wifi_deauth_sta takes an id: by now it may be another station's. *)
Deauth ==
  /\ deauthing # 0 /\ Dropped(deauthing) /\ deauthing' = 0
  /\ UNCHANGED <<denials, http, count, joins, saves>>

(* Every disconnect is counted, that of a denied station too. *)
AfterLeave == IF count > 0 THEN count - 1 ELSE 0

HandleLeft ==
  /\ deauthing = 0 /\ events # <<>> /\ ~Head(events).joined
  /\ events' = Tail(events) /\ count' = AfterLeave
  /\ UNCHANGED <<assoc, deauthing, denials, http, joins, saves>>

-----------------------------------------------------------------------------
(* mac_deny_set_all: the table is emptied and refilled without a lock, and *)
(* then stored; a failed write leaves it in RAM only.                      *)
Save(S) ==
  /\ http.pc = "idle" /\ saves < MaxSaves /\ saves' = saves + 1
  /\ deny' = {} /\ http' = [Resting EXCEPT !.pc = "fill", !.new = S]
  /\ UNCHANGED <<driver, deauthing, denyNvs, failed, count, joins>>

Fill ==
  /\ http.pc = "fill"
  /\ deny' = http.new /\ http' = [http EXCEPT !.pc = "store"]
  /\ UNCHANGED <<driver, deauthing, denyNvs, failed, count, joins, saves>>

Store ==
  /\ http.pc = "store"
  /\ \/ /\ denyNvs' = deny /\ http' = [http EXCEPT !.pc = "list"]
        /\ UNCHANGED failed
     \/ /\ failed' = TRUE /\ http' = Resting
        /\ UNCHANGED denyNvs
  /\ UNCHANGED <<driver, deauthing, deny, count, joins, saves>>

(* mac_deny_save_handler: the stations of the driver's list that are now   *)
(* denied are deauthenticated, each by the id it has when its turn comes.  *)
ToKick_None == {}
ToKick == Stations \cap deny

List ==
  /\ http.pc = "list"
  /\ http' = [http EXCEPT !.pc = "aid", !.kick = ToKick]
  /\ UNCHANGED <<driver, deauthing, denials, count, joins, saves>>

(* dhcp_kick_handler: one station, picked by the operator. *)
KickByHand(m) ==
  /\ http.pc = "idle" /\ saves < MaxSaves /\ saves' = saves + 1
  /\ http' = [Resting EXCEPT !.pc = "aid", !.kick = {m} \cap Stations]
  /\ UNCHANGED <<driver, deauthing, denials, count, joins>>

KickNext ==
  /\ http.pc = "aid"
  /\ IF http.kick = {}
     THEN http' = Resting
     ELSE \E m \in http.kick :
            http' = [http EXCEPT
                       !.kick = @ \ {m},
                       !.pc = IF m \in Stations THEN "kick" ELSE "aid",
                       !.aid = IF m \in Stations
                               THEN CHOOSE a \in Aids : assoc[a] = m ELSE 0]
  /\ UNCHANGED <<driver, deauthing, denials, count, joins, saves>>

Kick ==
  /\ http.pc = "kick" /\ Dropped(http.aid)
  /\ http' = [http EXCEPT !.pc = "aid", !.aid = 0]
  /\ UNCHANGED <<deauthing, denials, count, joins, saves>>

Next ==
  \/ \E m \in Macs, a \in Aids : Join(m, a)
  \/ \E a \in Aids : Leave(a)
  \/ HandleJoined \/ Deauth \/ HandleLeft
  \/ \E S \in SUBSET Macs : Save(S)
  \/ Fill \/ Store \/ List \/ KickNext \/ Kick
  \/ \E m \in Macs : KickByHand(m)

Spec == Init /\ [][Next]_vars

-----------------------------------------------------------------------------
Handled == events = <<>> /\ deauthing = 0 /\ http.pc = "idle"

(* mac_deny_save_handler: no station whose MAC is denied stays connected   *)
(* until the operator kicks it, although its join may be handled while the *)
(* table is empty and ids are reused between the look-up and the           *)
(* deauthentication.                                                       *)
DeniedStationsLeave == Handled /\ ~failed => Stations \cap deny = {}

(* Once the events are handled, connect_count is not above the number of   *)
(* stations; a denied station's disconnect, which is counted, takes it     *)
(* below.                                                                  *)
CountNotAbove == Handled => count <= Cardinality(Stations)

(* Once the event loop has handled what happened, the table of stations is*)
(* as the two pages show it: mac_deny's on one side, connect_count's on   *)
(* the other.                                                             *)
StationsSettled == DeniedStationsLeave /\ CountNotAbove
=============================================================================
