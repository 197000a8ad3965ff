---------------------------- MODULE NtfyCommands ----------------------------
(* Remote commands (main/ntfy_integration.c): the ntfy task polls a topic  *)
(* from the message it saw last, which it also keeps in NVS, and httpd     *)
(* changes the configuration meanwhile. Messages are numbered on a topic;  *)
(* an id is <<topic, number>>. The router's own answers are published on   *)
(* the same topic and come back with the next poll.                        *)
EXTENDS Naturals, Sequences, FiniteSetsExt

CONSTANTS
  Topics,      \* server and topic of a configuration, each on a server of its own
  Buffer,      \* messages that the response buffer is sure to hold
  MaxSent,     \* bound: messages that people publish
  MaxListens,  \* bound: changes of topic, and the first one
  MaxCrashes,  \* bound
  MidPoll      \* a topic may change between the copy of the configuration that a
               \* poll uses and its reading of the cursor; an alert that is being
               \* published lies in between

VARIABLES
  server,      \* the messages of each topic: "wake" or "own"
  cfg, stored, \* s_config and NVS: [on, topic]
  cursor, last,\* s_last_event_id, and NVS ntfy_last
  poll,        \* [pc, topic, listen, since, lines], lines the numbers to handle
  web,         \* set_config: [pc, new, moved]
  topic,       \* history: the topic of each listening
  carried,     \* history: by each listening, the commands carried out
  crashes

vars == <<server, cfg, stored, cursor, last, poll, web, topic, carried, crashes>>
history == <<topic, carried, crashes>>

None == <<>>
Idle == [pc |-> "idle", topic |-> "", listen |-> 0, since |-> None, lines |-> <<>>]
WebIdle(c) == [pc |-> "idle", new |-> c, moved |-> FALSE]

Init ==
  /\ server = [t \in Topics |-> <<>>]
  /\ cfg \in [on : {TRUE}, topic : Topics] /\ stored = cfg
  /\ cursor = None /\ last = None
  /\ poll = Idle /\ web = WebIdle(cfg)
  /\ topic = <<cfg.topic>> /\ carried = [l \in 1..MaxListens |-> <<>>] /\ crashes = 0

-----------------------------------------------------------------------------
(* The server: since an id it gives what follows it, everything when it    *)
(* does not know the id; since a time, some last messages.                 *)
Suffixes(t, id) ==
  LET from(n) == [i \in 1 .. Len(server[t]) - n |-> n + i]
  IN  CASE id = None   -> {from(n) : n \in 0..Len(server[t])}
        [] id # None /\ id[1] = t -> {from(id[2])}
        [] OTHER       -> {from(0)}

Heard_Whole(s) == IF Len(s) <= Buffer THEN {s} ELSE {<<>>}

(* http_event: a chunk that does not fit is dropped, so that what is read  *)
(* is some lines of a long answer, in their order, which is that of their  *)
(* numbers.                                                                *)
Heard(s) ==
  IF Len(s) <= Buffer THEN {s}
  ELSE {u \in UNION {[1..m -> {s[i] : i \in DOMAIN s}] : m \in 1..Len(s)} :
          \A i, j \in DOMAIN u : i < j => u[i] < u[j]}

Count(t, m) == Len(SelectSeq(server[t], LAMBDA x : x = m))

(* People publish commands on a topic of theirs.                           *)
Publish(t) ==
  /\ FoldSet(LAMBDA u, n : n + Count(u, "wake"), 0, Topics) < MaxSent
  /\ server' = [server EXCEPT ![t] = Append(@, "wake")]
  /\ UNCHANGED <<cfg, stored, cursor, last, poll, web, history>>

(* task_main takes a copy of the configuration; poll_commands reads the    *)
(* cursor, under the lock, and asks.                                       *)
Copy ==
  /\ poll.pc = "idle" /\ cfg.on
  /\ poll' = [Idle EXCEPT !.pc = "copied", !.topic = cfg.topic, !.listen = Len(topic)]
  /\ UNCHANGED <<server, cfg, stored, cursor, last, web, history>>

Ask ==
  /\ poll.pc = "copied" /\ poll' = [poll EXCEPT !.pc = "asked", !.since = cursor]
  /\ UNCHANGED <<server, cfg, stored, cursor, last, web, history>>

(* While httpd is between two statements no request is answered.           *)
Answered ==
  /\ poll.pc = "asked" /\ web.pc \notin {"clear", "erase"}
  /\ \E s \in Suffixes(poll.topic, poll.since) : \E lines \in Heard(s) :
       poll' = IF lines = <<>> THEN Idle
               ELSE [poll EXCEPT !.pc = "line", !.lines = lines]
  /\ UNCHANGED <<server, cfg, stored, cursor, last, web, history>>

PollFails ==
  /\ poll.pc = "asked" /\ poll' = Idle
  /\ UNCHANGED <<server, cfg, stored, cursor, last, web, history>>

This == <<poll.topic, Head(poll.lines)>>

(* The message is noted, in RAM and then in NVS, before it is carried out. *)
Note ==
  /\ poll.pc = "line" /\ cursor' = This
  /\ poll' = [poll EXCEPT !.pc = IF cursor = This THEN "seen" ELSE "save"]
  /\ UNCHANGED <<server, cfg, stored, last, web, history>>

Kept_Never(id) == last
Kept(id) == id

Save ==
  /\ poll.pc \in {"save", "seen"} /\ last' = Kept(This)
  /\ poll' = [poll EXCEPT !.pc = IF @ = "seen" THEN "next" ELSE "handle"]
  /\ UNCHANGED <<server, cfg, stored, cursor, web, history>>

(* response_is_ours: the title of the router's own messages.               *)
Ours(t, n) == server[t][n] = "own"

(* handle_command: wake_argument sends the packet; its outcome is then     *)
(* published, or that fails. An answer of the router's reads like a        *)
(* command, "WOL ...": it would be refused, and answered.                  *)
Handle ==
  LET t == poll.topic n == Head(poll.lines)
  IN  /\ poll.pc = "handle"
      /\ poll' = [poll EXCEPT !.pc = IF Ours(t, n) THEN "next" ELSE "answer"]
      /\ carried' = IF server[t][n] = "own" THEN carried
                    ELSE [carried EXCEPT ![poll.listen] = Append(@, n)]
      /\ UNCHANGED <<server, cfg, stored, cursor, last, web, topic, crashes>>

Answer ==
  /\ poll.pc = "answer" /\ poll' = [poll EXCEPT !.pc = "next"]
  /\ \/ server' = [server EXCEPT ![poll.topic] = Append(@, "own")]
     \/ UNCHANGED server
  /\ UNCHANGED <<cfg, stored, cursor, last, web, history>>

NextLine ==
  /\ poll.pc = "next"
  /\ poll' = IF Len(poll.lines) = 1 THEN Idle
             ELSE [poll EXCEPT !.pc = "line", !.lines = Tail(@)]
  /\ UNCHANGED <<server, cfg, stored, cursor, last, web, history>>

-----------------------------------------------------------------------------
(* set_config: the keys one after the other, up to the first that fails;   *)
(* then the copy in RAM; then, for another topic, the cursor is forgotten  *)
(* in RAM and in NVS.                                                      *)
SetConfig(new) ==
  /\ web.pc = "idle" /\ new # cfg /\ (new.topic # cfg.topic => Len(topic) < MaxListens)
  /\ web' = [pc |-> "on", new |-> new, moved |-> new.topic # cfg.topic]
  /\ UNCHANGED <<server, cfg, stored, cursor, last, poll, history>>

KeySaved ==
  /\ \/ /\ web.pc = "on" /\ stored' = [stored EXCEPT !.on = web.new.on]
        /\ web' = [web EXCEPT !.pc = "topic"]
     \/ /\ web.pc = "topic" /\ stored' = [stored EXCEPT !.topic = web.new.topic]
        /\ web' = [web EXCEPT !.pc = "ram"]
  /\ UNCHANGED <<server, cfg, cursor, last, poll, history>>

KeyFails ==
  /\ web.pc \in {"on", "topic"} /\ web' = WebIdle(cfg)
  /\ UNCHANGED <<server, cfg, stored, cursor, last, poll, history>>

Listening(t) == IF t = cfg.topic THEN topic ELSE Append(topic, t)

Swap ==
  /\ web.pc = "ram" /\ (web.moved /\ ~MidPoll => poll.pc # "copied")
  /\ cfg' = web.new /\ topic' = Listening(web.new.topic)
  /\ web' = [web EXCEPT !.pc = IF web.moved THEN "clear" ELSE "idle"]
  /\ UNCHANGED <<server, stored, cursor, last, poll, carried, crashes>>

Forget ==
  /\ web.pc = "clear" /\ cursor' = None /\ web' = [web EXCEPT !.pc = "erase"]
  /\ UNCHANGED <<server, cfg, stored, last, poll, history>>

Erase ==
  /\ web.pc = "erase" /\ last' = None /\ web' = WebIdle(cfg)
  /\ UNCHANGED <<server, cfg, stored, cursor, poll, history>>

(* A restart loads the configuration and the cursor.                       *)
Restart ==
  /\ crashes < MaxCrashes /\ crashes' = crashes + 1
  /\ stored.topic # cfg.topic => Len(topic) < MaxListens
  /\ cfg' = stored /\ cursor' = last /\ topic' = Listening(stored.topic)
  /\ poll' = Idle /\ web' = WebIdle(stored)
  /\ UNCHANGED <<server, stored, last, carried>>

Task == Copy \/ Ask \/ Answered \/ Note \/ Save \/ Handle \/ Answer \/ NextLine
Httpd == KeySaved \/ KeyFails \/ Swap \/ Forget \/ Erase

Next ==
  \/ Task \/ PollFails \/ Httpd \/ Restart
  \/ \E t \in Topics : Publish(t)
  \/ \E on \in BOOLEAN, t \in Topics : SetConfig([on |-> on, topic |-> t])

(* The two tasks run, and a server that is asked again and again answers.  *)
Spec == Init /\ [][Next]_vars /\ WF_vars(Task) /\ WF_vars(Httpd) /\ SF_vars(Answered)

-----------------------------------------------------------------------------
(* "replay-protected ntfy commands" (README.md): by each listening the     *)
(* router carries out messages of its topic in their order and none twice, *)
(* whatever restarts, lost answers and changes of topic lie in between.    *)
Published == [t \in Topics |-> Len(server[t])]
Orders == INSTANCE RemoteOrders WITH published <- Published
NoReplay == Orders!Spec

(* "durable polling" (README.md): while commands stay enabled, and the     *)
(* configuration is left alone, a task that has a cursor reaches the last  *)
(* message, also when the answers do not fit into its buffer.              *)
CaughtUp ==
  cursor # None /\ server[cfg.topic] # <<>> => cursor = <<cfg.topic, Len(server[cfg.topic])>>
ReachesTheLast == <>[](cfg.on /\ web.pc = "idle") => <>[]CaughtUp
=============================================================================
