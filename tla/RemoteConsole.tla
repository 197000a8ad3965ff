--------------------------- MODULE RemoteConsole ----------------------------
(* The remote console (components/remote_console/remote_console.c): the    *)
(* API that enables, disables and configures it, and the task that accepts *)
(* one client at a time. A task created while an earlier one still runs    *)
(* shares every field of rc_state with it. The API has one caller at a     *)
(* time, and NVS takes its writes.                                         *)
EXTENDS Integers

CONSTANTS
  Tasks,      \* server tasks that may be created
  MaxAttempts,\* RC_MAX_AUTH_ATTEMPTS
  MaxEvents   \* bound: calls of the API, clients, resets

Interfaces == {"ap", "sta", "vpn"}   \* the bits of RC_BIND_*

VARIABLES
  enabled, bind,         \* rc_config
  nvs,                   \* stored configuration: [enabled, bind], bind as a byte
  server,                \* rc_state.server_socket is open
  state,                 \* rc_state.state
  handle,                \* rc_state.task_handle, or "none"
  kick, shutdown,        \* rc_state.kick_requested, shutdown_requested
  mutex,                 \* holder of session_mutex, or "none"
  pc, tries,             \* per task: its location, passwords asked for
  api,                   \* location of remote_console_disable
  pwSet,                 \* is_web_password_set()
  events,                \* bound
  early                  \* history: enabled while an earlier task still ran

config == <<enabled, bind, nvs>>
control == <<state, handle, kick, shutdown, api>>
tasks == <<pc, tries, mutex>>
hist == <<events, early>>
vars == <<config, server, control, tasks, pwSet, hist>>

Live == {t \in Tasks : pc[t] # "dead"}
Event == events < MaxEvents /\ events' = events + 1

(* load_config: bytes 0, 1 and 2 are read as the values of an older enum;  *)
(* any other byte as the bits it has.                                      *)
Byte(S) == (IF "ap" \in S THEN 1 ELSE 0) + (IF "sta" \in S THEN 2 ELSE 0)
           + (IF "vpn" \in S THEN 4 ELSE 0)
Bits(b) == CHOOSE S \in SUBSET Interfaces : Byte(S) = b
Loaded(b) == IF b = 0 THEN {"ap", "sta"} ELSE Bits(b)

(* What remote_console_init leaves after loading c. *)
Booted(c) ==
  /\ enabled' = c.enabled /\ bind' = Loaded(c.bind)
  /\ server' = FALSE /\ kick' = FALSE /\ shutdown' = FALSE /\ mutex' = "none" /\ api' = "idle"
  /\ tries' = [t \in Tasks |-> 0]
  /\ \E t \in Tasks :
       /\ handle' = IF c.enabled THEN t ELSE "none"
       /\ state' = IF c.enabled THEN "listening" ELSE "disabled"
       /\ pc' = [u \in Tasks |-> IF c.enabled /\ u = t THEN "open" ELSE "dead"]

Init ==
  /\ nvs \in [enabled : {FALSE}, bind : 0..7]
  /\ enabled = nvs.enabled /\ bind = Loaded(nvs.bind)
  /\ server = FALSE /\ kick = FALSE /\ shutdown = FALSE /\ mutex = "none" /\ api = "idle"
  /\ tries = [t \in Tasks |-> 0] /\ handle = "none" /\ state = "disabled"
  /\ pc = [t \in Tasks |-> "dead"] /\ pwSet \in BOOLEAN
  /\ events = 0 /\ early = FALSE

-----------------------------------------------------------------------------
(* remote_console_enable *)
Enable ==
  /\ ~enabled /\ api = "idle" /\ Event
  /\ enabled' = TRUE /\ nvs' = [enabled |-> TRUE, bind |-> Byte(bind)]
  /\ IF handle # "none"
     THEN UNCHANGED <<handle, shutdown, state, pc, early>>
     ELSE \E t \in Tasks \ Live :
            /\ shutdown' = FALSE /\ handle' = t /\ state' = "listening"
            /\ pc' = [pc EXCEPT ![t] = "open"] /\ early' = (early \/ Live # {})
  /\ UNCHANGED <<bind, server, kick, api, tries, mutex, pwSet>>

(* ... when the task cannot be created. *)
EnableFails ==
  /\ ~enabled /\ api = "idle" /\ handle = "none" /\ Event
  /\ shutdown' = FALSE /\ nvs' = [enabled |-> FALSE, bind |-> Byte(bind)]
  /\ early' = (early \/ Live # {})
  /\ UNCHANGED <<enabled, bind, server, state, handle, kick, api, tasks, pwSet>>

(* remote_console_disable: the flags and the socket, then half a second.   *)
AfterDisable_Open == server
AfterDisable == FALSE

Disable ==
  /\ enabled /\ api = "idle" /\ Event
  /\ enabled' = FALSE /\ nvs' = [enabled |-> FALSE, bind |-> Byte(bind)]
  /\ shutdown' = TRUE /\ kick' = TRUE /\ server' = AfterDisable
  /\ IF handle # "none" THEN api' = "wait" /\ UNCHANGED state
     ELSE api' = "idle" /\ state' = "disabled"
  /\ UNCHANGED <<bind, handle, tasks, pwSet, early>>

DisableReturns ==
  /\ api = "wait" /\ api' = "idle" /\ handle' = "none" /\ state' = "disabled"
  /\ UNCHANGED <<config, server, kick, shutdown, tasks, pwSet, hist>>

(* remote_console_set_bind: at least the access point. *)
SetBind(S) ==
  /\ api = "idle" /\ Event
  /\ bind' = IF S = {} THEN {"ap"} ELSE S
  /\ nvs' = [enabled |-> enabled, bind |-> Byte(bind')]
  /\ UNCHANGED <<enabled, server, control, tasks, pwSet, early>>

Kick ==
  /\ state = "active" /\ api = "idle" /\ Event /\ kick' = TRUE
  /\ UNCHANGED <<config, server, state, handle, shutdown, api, tasks, pwSet, early>>

Password ==
  /\ Event /\ pwSet' = ~pwSet
  /\ UNCHANGED <<config, server, control, tasks, early>>

Reset == Event /\ Booted(nvs) /\ UNCHANGED <<nvs, pwSet, early>>

-----------------------------------------------------------------------------
Move(t, from, to) == pc[t] = from /\ pc' = [pc EXCEPT ![t] = to]

(* Socket, bind and listen; a failure is retried after five seconds. *)
OpenServer(t) ==
  /\ ~shutdown /\ Move(t, "open", "accept") /\ server' = TRUE /\ state' = "listening"
  /\ UNCHANGED <<config, handle, kick, shutdown, api, tries, mutex, pwSet, hist>>

(* Both loops end on shutdown; accept returns when its socket is closed. *)
Exit(t) ==
  /\ shutdown /\ pc[t] \in {"open", "accept"} /\ ~(pc[t] = "accept" /\ server)
  /\ pc' = [pc EXCEPT ![t] = "dead"] /\ state' = "disabled" /\ handle' = "none"
  /\ UNCHANGED <<config, server, kick, shutdown, api, tries, mutex, pwSet, hist>>

(* A connection to one of the router's addresses; one from the tailnet     *)
(* passes two filters.                                                     *)
Allowed(i, tailnet) ==
  /\ tailnet => "vpn" \in bind
  /\ i \in bind \ {"vpn"} \/ (tailnet /\ "vpn" \in bind)

Accept(t, i, tailnet) ==
  /\ server /\ Allowed(i, tailnet) /\ Event
  /\ IF mutex # "none" THEN pc[t] = "accept" /\ UNCHANGED <<tasks, state, kick>>
     ELSE /\ Move(t, "accept", IF pwSet THEN "auth" ELSE "close") /\ mutex' = t
          /\ state' = "auth" /\ kick' = FALSE /\ tries' = [tries EXCEPT ![t] = 0]
  /\ UNCHANGED <<config, server, handle, shutdown, api, pwSet, early>>

(* recv_line ends without a line: a flag, its time-out, the peer's close. *)
NoLine(t) ==
  /\ pc[t] \in {"auth", "session"} /\ pc' = [pc EXCEPT ![t] = "close"]
  /\ UNCHANGED <<config, server, control, tries, mutex, pwSet, hist>>

AfterWrong(n) == IF n < MaxAttempts THEN "auth" ELSE "delay"
Wrong(t) ==
  /\ ~kick /\ ~shutdown /\ tries' = [tries EXCEPT ![t] = @ + 1]
  /\ Move(t, "auth", AfterWrong(tries'[t]))
  /\ UNCHANGED <<config, server, control, mutex, pwSet, hist>>

Delayed(t) ==
  /\ Move(t, "delay", "close")
  /\ UNCHANGED <<config, server, control, tries, mutex, pwSet, hist>>

SessionState_Unset == state
SessionState == "active"

Right(t) ==
  /\ pwSet /\ ~kick /\ ~shutdown /\ Move(t, "auth", "session") /\ state' = SessionState
  /\ UNCHANGED <<config, server, handle, kick, shutdown, api, tries, mutex, pwSet, hist>>

Close(t) ==
  /\ Move(t, "close", "accept") /\ state' = "listening" /\ kick' = FALSE /\ mutex' = "none"
  /\ UNCHANGED <<config, server, handle, shutdown, api, tries, pwSet, hist>>

TaskStep(t) ==
  OpenServer(t) \/ Exit(t) \/ NoLine(t) \/ Wrong(t) \/ Delayed(t) \/ Right(t) \/ Close(t)

Next ==
  \/ Enable \/ EnableFails \/ Disable \/ DisableReturns \/ Kick \/ Password \/ Reset
  \/ \E S \in SUBSET Interfaces : SetBind(S)
  \/ \E t \in Tasks :
       \/ TaskStep(t)
       \/ \E i \in {"ap", "sta"}, tailnet \in BOOLEAN : Accept(t, i, tailnet)

(* The tasks run; a wrong password is tried no more than MaxAttempts times *)
(* and a line that never comes ends a time-out.                            *)
Spec == Init /\ [][Next]_vars /\ \A t \in Tasks : WF_vars(TaskStep(t)) /\ WF_vars(DisableReturns)

-----------------------------------------------------------------------------
(* Unless it is enabled again before the old task is gone, one task at     *)
(* most serves the console, and the session flag a kick asks for is true   *)
(* of the client it would disconnect.                                      *)
OneTask ==
  ~early =>
    /\ \A t, u \in Live : t = u
    /\ \A t \in Tasks : pc[t] = "session" => state = "active" \/ ~enabled

(* The interfaces the console answers on survive a reset, whatever an      *)
(* older firmware left in NVS.                                             *)
BindSurvives == bind = Loaded(nvs.bind)

(* Disabled, and not enabled again, the console ends its task and its      *)
(* session, even with a client that never sends a line.                    *)
EventuallyOff == ~enabled ~> (Live = {} \/ enabled \/ early)


(* One task serves the console, on the interfaces that were configured.   *)
ServedByOne == OneTask /\ BindSurvives
=============================================================================
