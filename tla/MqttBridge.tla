----------------------------- MODULE MqttBridge -----------------------------
(* The MQTT bridge (main/mqtt_integration.c): the manager task that starts *)
(* and stops the client and publishes, the client's own task with its      *)
(* events, and the broker watchdog. The broker keeps what is published:    *)
(* retained says which rule switches and which Wake-on-LAN button it holds *)
(* and the last state, here the number of forwarding rules.                *)
EXTENDS Integers, FiniteSets

CONSTANTS
  MaxRules,    \* TAILNET_FORWARD_MAX
  Timeout,     \* broker_watchdog_timeout_seconds, in ticks
  MaxAttempt,  \* ticks from one attempt of the client to the next, at most
  MaxEvents    \* bound: edits and changes of the broker

VARIABLES
  cfg, notified,        \* s_config: [on, watch]; the manager's notification
  mgr,                  \* manager_task: [pc, n, i], n the rules it counted, i a slot
  conn,                 \* the event handler, likewise
  client,               \* none, waiting (between attempts), up, or broken: the broker
                        \* went away and the client has not noticed
  connected, triggered, \* s_connected, s_watchdog_triggered
  silence, wait,        \* ticks since s_last_broker_ok_us; since the last attempt
  broker, retained,
  rules, wol,           \* forwarding rules, and whether a WOL device is saved
  stateReq, discReq,    \* s_publish_requested, s_discovery_requested
  web,                  \* httpd is between an edit and its notice to the bridge
  command,              \* a restart command: none, kept (retained by the broker), or
                        \* offered (the broker sends what it kept to a subscriber)
  runs,                 \* history: times that the command restarted the router
  events, bursts        \* bound; history: wake bursts of this outage

tables == <<rules, wol, web>>
flags == <<stateReq, discReq>>
clock == <<silence, wait>>
commands == <<command, runs>>
settings == <<cfg, notified>>
link == <<client, connected, triggered, clock>>
rest == <<tables, flags, events, bursts>>
vars == <<settings, mgr, conn, link, broker, retained, commands, rest>>

At(pc) == [pc |-> pc, n |-> 0, i |-> 0]
Slots == 1..MaxRules

Init ==
  /\ cfg = [on |-> TRUE, watch |-> TRUE] /\ notified = FALSE
  /\ mgr = At("start") /\ conn = At("idle") /\ client = "none"
  /\ connected = FALSE /\ triggered = FALSE /\ silence = 0 /\ wait = 0
  /\ broker \in BOOLEAN /\ retained = [rules |-> {}, wol |-> FALSE, state |-> 0]
  /\ rules = 0 /\ wol = FALSE /\ web = "idle" /\ stateReq = FALSE /\ discReq = FALSE
  /\ command = "none" /\ runs = 0 /\ events = 0 /\ bursts = 0

Event == events < MaxEvents /\ events' = events + 1

-----------------------------------------------------------------------------
(* publish: while s_connected; what a broken client holds is not counted,  *)
(* as everything is published again when it has reconnected.               *)
Publish(new) == retained' = IF connected /\ client = "up" THEN new ELSE retained

(* publish_discovery, slot by slot: a rule counted at the start and still  *)
(* there is published, a slot past the count is cleared; then the buttons  *)
(* of the devices, which nothing clears.                                   *)
Slot_KeepDeleted(n, i) ==
  IF i <= n /\ i <= rules THEN [retained EXCEPT !.rules = @ \cup {i}] ELSE retained
Slot(n, i) ==
  IF i > n THEN [retained EXCEPT !.rules = @ \ {i}]
  ELSE IF i <= rules THEN [retained EXCEPT !.rules = @ \cup {i}] ELSE retained

Buttons == [retained EXCEPT !.wol = @ \/ wol]

(* One step of it by the task whose record is p. *)
Discover(p) ==
  /\ p.pc = "disc"
  /\ IF p.i > MaxRules THEN Publish(Buttons) ELSE Publish(Slot(p.n, p.i))

After(p, next) == IF p.i > MaxRules THEN At(next) ELSE [p EXCEPT !.i = @ + 1]
Counting == [pc |-> "disc", n |-> rules, i |-> 1]

-----------------------------------------------------------------------------
(* The manager. A notification restarts the client: s_connected is cleared *)
(* before the client has stopped.                                          *)
Notified ==
  /\ mgr.pc = "loop" /\ notified /\ notified' = FALSE
  /\ mgr' = At("stop") /\ connected' = FALSE
  /\ UNCHANGED <<commands, cfg, conn, client, triggered, clock, broker, retained, rest>>

(* esp_mqtt_client_stop waits for the client's task. *)
StopClient ==
  /\ mgr.pc = "stop" /\ conn.pc = "idle" /\ client' = "none" /\ mgr' = At("start")
  /\ UNCHANGED <<commands, settings, conn, connected, triggered, clock, broker, retained, rest>>

(* start_client; when it fails nothing tries again before the next change. *)
StartClient ==
  /\ mgr.pc = "start" /\ mgr' = At("state")
  /\ IF cfg.on
     THEN /\ silence' = 0 /\ wait' = 0 /\ triggered' = FALSE /\ bursts' = 0
          /\ \/ client' = "waiting" /\ UNCHANGED events
             \/ client' = "none" /\ Event
     ELSE UNCHANGED <<client, clock, triggered, bursts, events>>
  /\ UNCHANGED <<commands, settings, conn, connected, broker, retained, tables, flags>>

Wake ==
  /\ mgr.pc = "loop" /\ ~notified /\ mgr' = At("state")
  /\ UNCHANGED <<commands, settings, conn, link, broker, retained, rest>>

(* The state, on request or because the interval is over. The request is   *)
(* taken first, so that one made meanwhile is not lost.                    *)
StateWanted ==
  /\ mgr.pc = "state" /\ connected /\ stateReq' = FALSE
  /\ mgr' = [pc |-> "send", n |-> rules, i |-> 0]
  /\ UNCHANGED <<commands, settings, conn, link, broker, retained, tables, discReq, events, bursts>>

NoState ==
  /\ mgr.pc = "state" /\ ~(connected /\ stateReq) /\ mgr' = At("ask")
  /\ UNCHANGED <<commands, settings, conn, link, broker, retained, rest>>

SendState ==
  /\ mgr.pc = "send" /\ conn.pc = "idle" /\ mgr' = At("ask")
  /\ Publish([retained EXCEPT !.state = mgr.n])
  /\ UNCHANGED <<commands, settings, conn, link, broker, rest>>

(* The discovery records, on request. *)
Ask ==
  /\ mgr.pc = "ask"
  /\ IF connected /\ discReq
     THEN discReq' = FALSE /\ mgr' = Counting
     ELSE mgr' = At("watch") /\ UNCHANGED discReq
  /\ UNCHANGED <<commands, settings, conn, link, broker, retained, tables, stateReq, events, bursts>>

MgrDiscover ==
  /\ Discover(mgr) /\ conn.pc = "idle" /\ mgr' = After(mgr, "watch")
  /\ UNCHANGED <<commands, settings, conn, link, broker, rest>>

(* The watchdog: one burst per outage, whether sending succeeds or not.    *)
Silent == ~connected /\ cfg.on /\ cfg.watch /\ ~triggered /\ silence >= Timeout

Watch ==
  /\ mgr.pc = "watch" /\ mgr' = At(IF Silent THEN "burst" ELSE "loop")
  /\ UNCHANGED <<commands, settings, conn, link, broker, retained, rest>>

Armed_IfSent(sent) == sent
Armed(sent) == TRUE
Burst ==
  /\ mgr.pc = "burst" /\ mgr' = At("loop") /\ bursts' = bursts + 1
  /\ \E sent \in BOOLEAN : triggered' = Armed(sent)
  /\ UNCHANGED <<commands, settings, conn, client, connected, clock, broker, retained, tables, flags, events>>

-----------------------------------------------------------------------------
(* The client's task. An attempt that fails, like a connection that ends,  *)
(* posts MQTT_EVENT_DISCONNECTED.                                          *)
Lost ==
  /\ connected' = FALSE /\ silence' = 0 /\ wait' = 0
  /\ UNCHANGED <<commands, settings, mgr, conn, triggered, broker, retained, rest>>

AttemptFails == client = "waiting" /\ ~broker /\ wait > 0 /\ UNCHANGED client /\ Lost
Disconnected == client = "broken" /\ conn.pc = "idle" /\ client' = "waiting" /\ Lost

Connected ==
  /\ client = "waiting" /\ broker /\ client' = "up" /\ conn' = At("hello")
  /\ connected' = TRUE /\ silence' = 0 /\ triggered' = FALSE /\ bursts' = 0
  /\ UNCHANGED runs /\ command' = IF command = "none" THEN "none" ELSE "offered"
  /\ UNCHANGED <<settings, mgr, wait, broker, retained, tables, flags, events>>

(* The handler goes on to publish everything. *)
Greet ==
  /\ conn.pc = "hello" /\ conn' = Counting
  /\ UNCHANGED <<commands, settings, mgr, link, broker, retained, rest>>

ConnDiscover ==
  /\ Discover(conn) /\ conn' = After(conn, "state")
  /\ UNCHANGED <<commands, settings, mgr, link, broker, rest>>

ConnState ==
  /\ conn.pc = "state" /\ conn' = [pc |-> "send", n |-> rules, i |-> 0]
  /\ UNCHANGED <<commands, settings, mgr, link, broker, retained, rest>>

ConnSend ==
  /\ conn.pc = "send" /\ conn' = At("idle") /\ Publish([retained EXCEPT !.state = conn.n])
  /\ UNCHANGED <<commands, settings, mgr, link, broker, rest>>

Capped(n, top) == IF n < top THEN n + 1 ELSE n
Tick ==
  /\ ~connected /\ (client = "waiting" => wait < MaxAttempt)
  /\ silence < Timeout \/ wait < MaxAttempt
  /\ silence' = Capped(silence, Timeout) /\ wait' = Capped(wait, MaxAttempt)
  /\ UNCHANGED <<commands, settings, mgr, conn, client, connected, triggered, broker, retained, rest>>

-----------------------------------------------------------------------------
(* Httpd: a save of the bridge's own settings, which needs a broker for a  *)
(* watchdog; edits of the two tables, followed by the notice.              *)
SetConfig(c) ==
  /\ c.watch => c.on
  /\ Event /\ cfg' = c /\ notified' = TRUE
  /\ UNCHANGED <<commands, mgr, conn, link, broker, retained, tables, flags, bursts>>

EditRules(n) ==
  /\ web = "idle" /\ Event /\ n # rules /\ rules' = n /\ web' = "rules" /\ UNCHANGED wol
  /\ UNCHANGED <<commands, settings, mgr, conn, link, broker, retained, flags, bursts>>

EditWol ==
  /\ web = "idle" /\ Event /\ wol' = ~wol /\ web' = "wol" /\ UNCHANGED rules
  /\ UNCHANGED <<commands, settings, mgr, conn, link, broker, retained, flags, bursts>>

Notice ==
  /\ web # "idle" /\ web' = "idle" /\ discReq' = TRUE
  /\ stateReq' = (stateReq \/ web = "rules")
  /\ UNCHANGED <<commands, settings, mgr, conn, link, broker, retained, rules, wol, events, bursts>>

(* Somebody publishes a restart command with the retain flag: a client     *)
(* that is subscribed gets it as a live message, one that connects later   *)
(* as a retained one, and only the live one is carried out.                *)
Ignored(retain) == retain

Restart ==
  /\ mgr' = At("start") /\ conn' = At("idle") /\ client' = "none"
  /\ connected' = FALSE /\ triggered' = FALSE /\ silence' = 0 /\ wait' = 0 /\ bursts' = 0
  /\ stateReq' = FALSE /\ discReq' = FALSE /\ web' = "idle" /\ notified' = FALSE
  /\ runs' = Capped(runs, 2)
  /\ UNCHANGED <<cfg, broker, retained, rules, wol>>

CommandSent ==
  /\ command = "none" /\ broker /\ Event /\ command' = "kept"
  /\ IF client = "up" /\ conn.pc = "idle" /\ ~Ignored(FALSE)
     THEN Restart
     ELSE UNCHANGED <<runs, settings, mgr, conn, link, broker, retained, tables, flags, bursts>>

CommandOffered ==
  /\ command = "offered" /\ client = "up" /\ conn.pc = "idle" /\ command' = "kept"
  /\ UNCHANGED events
  /\ IF ~Ignored(TRUE)
     THEN Restart
     ELSE UNCHANGED <<runs, settings, mgr, conn, link, broker, retained, tables, flags, bursts>>

BrokerChange ==
  /\ Event /\ broker' = ~broker /\ client' = IF client = "up" THEN "broken" ELSE client
  /\ UNCHANGED <<commands, settings, mgr, conn, connected, triggered, clock, retained, tables, flags, bursts>>

Manager ==
  \/ Notified \/ StopClient \/ StartClient \/ Wake \/ StateWanted \/ NoState \/ SendState
  \/ Ask \/ MgrDiscover \/ Watch \/ Burst
Client == Connected \/ Greet \/ ConnDiscover \/ ConnState \/ ConnSend \/ Disconnected \/ AttemptFails
Next ==
  \/ Manager \/ Client \/ Tick \/ Notice \/ EditWol \/ BrokerChange \/ CommandSent \/ CommandOffered
  \/ \E c \in [on : BOOLEAN, watch : BOOLEAN] : SetConfig(c)
  \/ \E n \in 0..MaxRules : EditRules(n)

Fairness == WF_vars(Manager) /\ WF_vars(Client) /\ WF_vars(Tick) /\ WF_vars(Notice)
Spec == Init /\ [][Next]_vars /\ Fairness

-----------------------------------------------------------------------------
(* An outage of the broker is answered with one burst of wake packets, not *)
(* one a second: also when sending fails, and however the client's events  *)
(* fall between the manager's check and its burst.                         *)
OneBurst == bursts <= 1

(* A restart command restarts the router once, and not again on every      *)
(* reconnect because the broker kept it.                                   *)
RestartsOnce == runs <= 1

(* However edits, reconnects and the two publishing tasks overlap, the     *)
(* broker ends up with the rules as they are: no switch of a deleted rule, *)
(* none missing, and the state of the last edit.                           *)
Settled == <>[](broker /\ cfg.on /\ client # "none")
BrokerFollows ==
  Settled => <>[](/\ retained.rules = 1..rules /\ retained.state = rules
                  /\ wol => retained.wol)

(* A broker that stays away is woken. *)
WatchdogFires == (<>[](~broker /\ cfg.on /\ cfg.watch)) => <>(bursts > 0)

(* Once is once: one burst for an outage and one restart for a command,   *)
(* however often the client reconnects.                                   *)
OnceEach == OneBurst /\ RestartsOnce
=============================================================================
