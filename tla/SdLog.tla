------------------------------- MODULE SdLog -------------------------------
(* The SD recorder within one boot (components/sdlog/sdlog.c): the log     *)
(* hook, the queue, the writer task, enable, disable and erase by the web  *)
(* server's one task, and sdlog_flush by the tasks about to restart.       *)
(*                                                                         *)
(* The file mutex makes the writer's turn on one message and sdlog_erase_  *)
(* all atomic.  A call of the hook is atomic: it is taken to end within    *)
(* the time disable waits for the writer.  File numbers are in SdFiles.    *)
EXTENDS Integers, Sequences, FiniteSets

CONSTANTS
  Flushers,     \* tasks that call sdlog_flush, then restart
  MaxLines,     \* bound: log lines in one boot
  QueueDepth,   \* SDLOG_QUEUE_DEPTH
  CardFaults,   \* whether fopen may fail
  SlowClose     \* whether closing the file may outlast disable's second

VARIABLES
  enabled,   \* s_enabled
  queueUp,   \* s_queue # NULL
  queue,     \* what it holds
  fp,        \* s_fp # NULL
  done,      \* s_flush_done
  wpc,       \* the writer; "none" is s_writer_task = NULL
  item,      \* the message that the writer has received
  hpc,       \* the web server's task, in sdlog_disable
  fpc, due,  \* the flushers, and the lines each of them is to save
  place      \* where each line is

recorder == <<enabled, queueUp>>
writer   == <<wpc, item, fp>>
flushers == <<fpc, due>>
vars == <<enabled, queueUp, queue, fp, done, wpc, item, hpc, fpc, due, place>>

Lines  == 1..MaxLines
Poison == 0                    \* SDLOG_MSG_POISON
Marker == MaxLines + 1         \* SDLOG_MSG_FLUSH
Items  == Lines \cup {Poison, Marker}

TypeOK ==
  /\ enabled \in BOOLEAN /\ queueUp \in BOOLEAN
  /\ queue \in Seq(Items) /\ Len(queue) <= QueueDepth
  /\ fp \in BOOLEAN /\ done \in BOOLEAN
  /\ wpc \in {"none", "start", "recv", "have", "give", "end"}
  /\ item \in Items
  /\ hpc \in {"idle", "poison", "wait", "delete"}
  /\ fpc \in [Flushers -> {"idle", "send", "wait", "ok", "failed"}]
  /\ due \in [Flushers -> SUBSET Lines]
  /\ place \in [Lines -> {"new", "queue", "file", "card", "gone"}]

InFlight == {l \in Lines : place[l] \in {"queue", "file"}}

(* sdlog_init with a card, and NVS saying on or off. *)
Init ==
  /\ enabled \in BOOLEAN /\ queueUp = enabled
  /\ queue = <<>> /\ fp = FALSE /\ done = FALSE
  /\ wpc = (IF enabled THEN "start" ELSE "none") /\ item = Poison
  /\ hpc = "idle"
  /\ fpc = [f \in Flushers |-> "idle"] /\ due = [f \in Flushers |-> {}]
  /\ place = [l \in Lines |-> "new"]

-----------------------------------------------------------------------------
(* sdlog_vprintf; lines are numbered as they come.                         *)
QueueFull_OffByOne == Len(queue) > QueueDepth
QueueFull == Len(queue) >= QueueDepth

Log(l) ==
  /\ place[l] = "new" /\ \A k \in Lines : k < l => place[k] # "new"
  /\ enabled /\ queueUp
  /\ IF QueueFull
     THEN place' = [place EXCEPT ![l] = "gone"] /\ UNCHANGED queue
     ELSE place' = [place EXCEPT ![l] = "queue"] /\ queue' = Append(queue, l)
  /\ UNCHANGED <<recorder, writer, done, hpc, flushers>>

-----------------------------------------------------------------------------
(* open_new_file, which may leave s_fp NULL. *)
Opened == {TRUE} \cup (IF CardFaults THEN {FALSE} ELSE {})

(* fsync_active: what was written to the open file is on the card. *)
Synced(p) == [l \in Lines |-> IF p[l] = "file" THEN "card" ELSE p[l]]

WriterStart ==
  /\ wpc = "start" /\ wpc' = "recv" /\ fp' \in Opened
  /\ UNCHANGED <<recorder, queue, done, item, hpc, flushers, place>>

Receive ==
  /\ wpc = "recv" /\ queueUp /\ queue # <<>>
  /\ item' = Head(queue) /\ queue' = Tail(queue)
  /\ wpc' = IF Head(queue) = Poison THEN "end" ELSE "have"
  /\ UNCHANGED <<recorder, fp, done, hpc, flushers, place>>

(* A line goes to the file, opened again if it was away; a full file is    *)
(* closed, and the next one opened.                                        *)
WriteLine ==
  /\ wpc = "have" /\ item \in Lines /\ wpc' = "recv"
  /\ \E up \in (IF fp THEN {TRUE} ELSE Opened) :
       LET written == [place EXCEPT ![item] = IF up THEN "file" ELSE "gone"]
       IN  \/ fp' = up /\ place' = written
           \/ up /\ fp' \in Opened /\ place' = Synced(written)
  /\ UNCHANGED <<recorder, queue, done, item, hpc, flushers>>

(* Nothing came for SDLOG_TICK_MS: the file is opened again if it is away. *)
Reopen ==
  /\ wpc = "recv" /\ queueUp /\ queue = <<>> /\ ~fp
  /\ fp' \in Opened
  /\ UNCHANGED <<recorder, queue, done, wpc, item, hpc, flushers, place>>

(* The fsync of every SDLOG_FSYNC_PERIOD_MS, in the same turn. *)
SyncDue_Never == FALSE
SyncDue == fp /\ \E l \in Lines : place[l] = "file"

PeriodicSync ==
  /\ wpc = "recv" /\ queueUp /\ SyncDue
  /\ place' = Synced(place)
  /\ UNCHANGED <<recorder, writer, queue, done, hpc, flushers>>

(* A flush marker: sync, release the mutex, then wake the caller. *)
FlushSync == IF fp THEN Synced(place) ELSE place

WriterFlush ==
  /\ wpc = "have" /\ item = Marker /\ wpc' = "give"
  /\ place' = FlushSync
  /\ UNCHANGED <<recorder, queue, fp, done, item, hpc, flushers>>

WriterGive ==
  /\ wpc = "give" /\ wpc' = "recv" /\ done' = TRUE
  /\ UNCHANGED <<recorder, queue, fp, item, hpc, flushers, place>>

(* Poison: the file is synced and closed, then s_writer_task cleared. *)
WriterEnd ==
  /\ wpc = "end" /\ wpc' = "none" /\ fp' = FALSE
  /\ place' = Synced(place)
  /\ UNCHANGED <<recorder, queue, done, item, hpc, flushers>>

WriterStep ==
  \/ WriterStart \/ Receive \/ WriteLine \/ WriterFlush \/ WriterGive
  \/ WriterEnd

-----------------------------------------------------------------------------
(* sdlog_enable, with start_writer: a task only when there is none. *)
Enable ==
  /\ hpc = "idle" /\ ~enabled /\ enabled' = TRUE /\ queueUp' = TRUE
  /\ wpc' = IF wpc = "none" THEN "start" ELSE wpc
  /\ UNCHANGED <<queue, fp, done, item, hpc, flushers, place>>

(* sdlog_disable, with stop_writer in its steps. *)
Disable ==
  /\ hpc = "idle" /\ enabled /\ enabled' = FALSE
  /\ hpc' = IF queueUp /\ wpc # "none" THEN "poison" ELSE "delete"
  /\ UNCHANGED <<queueUp, queue, writer, done, flushers, place>>

SendPoison ==
  /\ hpc = "poison" /\ ~QueueFull
  /\ queue' = Append(queue, Poison) /\ hpc' = "wait"
  /\ UNCHANGED <<recorder, writer, done, flushers, place>>

(* At most 40 times 25 ms. *)
WriterAwaited_Not == TRUE
WriterAwaited == wpc = "none" \/ (SlowClose /\ wpc = "end")

StopWait ==
  /\ hpc = "wait" /\ WriterAwaited /\ hpc' = "delete"
  /\ UNCHANGED <<recorder, queue, writer, done, flushers, place>>

DeleteQueue ==
  /\ hpc = "delete" /\ hpc' = "idle"
  /\ queueUp' = FALSE /\ queue' = <<>>
  /\ UNCHANGED <<enabled, writer, done, flushers, place>>

(* sdlog_erase_all closes the file and unlinks all of them. *)
EraseAll ==
  /\ hpc = "idle" /\ fp' = FALSE
  /\ place' = [l \in Lines |->
                 IF place[l] \in {"file", "card"} THEN "gone" ELSE place[l]]
  /\ UNCHANGED <<recorder, queue, done, wpc, item, hpc, flushers>>

-----------------------------------------------------------------------------
(* sdlog_flush clears a stale completion, queues the marker and waits for  *)
(* the writer.  Both waits are bounded.                                    *)
FlushStart(f) ==
  /\ fpc[f] = "idle"
  /\ fpc' = [fpc EXCEPT ![f] =
               IF queueUp /\ wpc # "none" THEN "send" ELSE "failed"]
  /\ done' = (done /\ ~(queueUp /\ wpc # "none"))
  /\ due' = [due EXCEPT ![f] = InFlight]
  /\ UNCHANGED <<recorder, queue, writer, hpc, place>>

FlushSend(f) ==
  /\ fpc[f] = "send" /\ queueUp /\ ~QueueFull
  /\ queue' = Append(queue, Marker)
  /\ fpc' = [fpc EXCEPT ![f] = "wait"]
  /\ UNCHANGED <<recorder, writer, done, hpc, due, place>>

FlushDone(f) ==
  /\ fpc[f] = "wait" /\ done /\ done' = FALSE
  /\ fpc' = [fpc EXCEPT ![f] = "ok"]
  /\ UNCHANGED <<recorder, queue, writer, hpc, due, place>>

FlushTimeout(f) ==
  /\ fpc[f] \in {"send", "wait"}
  /\ fpc' = [fpc EXCEPT ![f] = "failed"]
  /\ UNCHANGED <<recorder, queue, writer, done, hpc, due, place>>

Next ==
  \/ \E l \in Lines : Log(l)
  \/ WriterStep \/ Reopen \/ PeriodicSync
  \/ Enable \/ Disable \/ SendPoison \/ StopWait \/ DeleteQueue \/ EraseAll
  \/ \E f \in Flushers :
       FlushStart(f) \/ FlushSend(f) \/ FlushDone(f) \/ FlushTimeout(f)

Spec == Init /\ [][Next]_vars

(* Tasks that can run do run: the writer's turns, its timed fsync, and a   *)
(* disable once it has begun.  Nobody has to enable, disable or log.       *)
FairSpec ==
  /\ Spec
  /\ WF_vars(WriterStep) /\ WF_vars(PeriodicSync)
  /\ WF_vars(SendPoison) /\ WF_vars(StopWait) /\ WF_vars(DeleteQueue)

-----------------------------------------------------------------------------
(* sdlog_flush's promise: when it returns ESP_OK, every line queued or     *)
(* buffered at the call is on the card, unless an erase took it or its     *)
(* file could not be opened.                                               *)
FlushDurable ==
  \A f \in Flushers : fpc[f] = "ok" => due[f] \cap InFlight = {}

(* sdlog_disable returns with the queue drained and the file closed. *)
StopDurable == ~enabled /\ hpc = "idle" => InFlight = {} /\ ~fp

(* sdlog.h: enabled means that the recorder is active, its writer task     *)
(* running: there is a task and a queue for the lines that the hook sends. *)
EnabledRecords == enabled /\ hpc = "idle" => queueUp /\ wpc # "none"

(* No line stays queued or buffered for ever, however enable, disable and  *)
(* erase interleave with the writer.                                       *)
LinesSettle == \A l \in Lines : l \in InFlight ~> l \notin InFlight

(* The recorder's calls mean what they return: flush and disable that the *)
(* lines are on the card, enable that there is a writer.                  *)
CallsKeepWord == FlushDurable /\ StopDurable /\ EnabledRecords
=============================================================================
