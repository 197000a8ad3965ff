---------------------------- MODULE DnsForwarder ----------------------------
(* The data side of the DNS relay (components/dns_relay/dns_relay.c): the  *)
(* listener's cache lookup and hand-off, the bounded work queue, the       *)
(* workers with an upstream socket each, and the direct-mapped cache.  A   *)
(* message is the name it is about; upstream resolvers and the network are *)
(* external: they may answer late, or never.                               *)
EXTENDS Integers, Sequences

CONSTANTS
  Clients, Names, Slots, SlotOf,   \* SlotOf[n]: fnv1a(n) % DNS_CACHE_ENTRIES
  Workers,
  QueueDepth,                      \* DNS_WORK_QUEUE_DEPTH
  NoJob,
  LateAnswers   \* whether an answer may come after DNS_RELAY_UP_TIMEOUT_MS

ASSUME ConstantsAssumption ==
  /\ SlotOf \in [Names -> Slots]
  /\ QueueDepth \in Nat \ {0}
  /\ NoJob \notin Names
  /\ LateAnswers \in BOOLEAN

VARIABLES
  pending,    \* queries in the listening socket: client -> name
  workq,      \* s_workq
  worker,     \* per worker: [pc, client, name, answer]
  asked,      \* per upstream socket: names still to be answered
  arrived,    \* per upstream socket: answers in its receive buffer
  cache,      \* per slot: [key, resp]
  reply       \* per client: the last reply, [name, answer]

vars == <<pending, workq, worker, asked, arrived, cache, reply>>

Job == [client : Clients, name : Names]
Free == [pc |-> "idle", client |-> NoJob, name |-> NoJob, answer |-> NoJob]
EmptySlot == [key |-> NoJob, resp |-> NoJob]
Maybe(S) == S \cup {NoJob}
Busy == [pc : {"send", "recv", "put"}, client : Clients, name : Names,
         answer : Maybe(Names)]

TypeOK ==
  /\ pending \in [Clients -> Maybe(Names)]
  /\ workq \in Seq(Job) /\ Len(workq) <= QueueDepth
  /\ worker \in [Workers -> {Free} \cup Busy]
  /\ asked \in [Workers -> SUBSET Names] /\ arrived \in [Workers -> Seq(Names)]
  /\ cache \in [Slots -> [key : Maybe(Names), resp : Maybe(Names)]]
  /\ reply \in [Clients -> [name : Maybe(Names), answer : Maybe(Names)]]

Init ==
  /\ pending = [c \in Clients |-> NoJob]
  /\ workq = <<>>
  /\ worker = [w \in Workers |-> Free]
  /\ asked = [w \in Workers |-> {}] /\ arrived = [w \in Workers |-> <<>>]
  /\ cache = [s \in Slots |-> EmptySlot]
  /\ reply = [c \in Clients |-> [name |-> NoJob, answer |-> NoJob]]

-----------------------------------------------------------------------------
(* A client of the access point sends a query. *)
Ask(c, n) ==
  /\ pending[c] = NoJob
  /\ pending' = [pending EXCEPT ![c] = n]
  /\ UNCHANGED <<workq, worker, asked, arrived, cache, reply>>

(* cache_get: the slot, its deadline and the whole question must match. *)
Hit_SlotOnly(n) == cache[SlotOf[n]] # EmptySlot
Hit(n) == cache[SlotOf[n]].key = n

QueueFull_OffByOne == Len(workq) > QueueDepth
QueueFull == Len(workq) >= QueueDepth

(* listener_task, one datagram: the cache, then the queue, which drops the *)
(* query when it is full or when the work item cannot be allocated.        *)
Receive(c) ==
  /\ pending[c] # NoJob
  /\ pending' = [pending EXCEPT ![c] = NoJob]
  /\ \/ /\ Hit(pending[c])
        /\ reply' = [reply EXCEPT ![c] =
             [name |-> pending[c], answer |-> cache[SlotOf[pending[c]]].resp]]
        /\ UNCHANGED workq
     \/ /\ ~Hit(pending[c])
        /\ \/ ~QueueFull
              /\ workq' = Append(workq, [client |-> c, name |-> pending[c]])
           \/ UNCHANGED workq
        /\ UNCHANGED reply
  /\ UNCHANGED <<worker, asked, arrived, cache>>

-----------------------------------------------------------------------------
(* worker_task.  Each worker owns one upstream socket. *)
SocketOf(w) == w

(* The worker's job at its next location. *)
At(w, l, a) ==
  [pc |-> l, client |-> worker[w].client, name |-> worker[w].name, answer |-> a]

(* Without a socket or an upstream resolver the query is dropped. *)
Take(w) ==
  /\ worker[w].pc = "idle" /\ workq # <<>>
  /\ workq' = Tail(workq)
  /\ \/ worker' = [worker EXCEPT ![w] =
          [pc |-> "send", client |-> Head(workq).client,
           name |-> Head(workq).name, answer |-> NoJob]]
     \/ UNCHANGED worker
  /\ UNCHANGED <<pending, asked, arrived, cache, reply>>

Send(w) ==
  /\ worker[w].pc = "send"
  /\ asked' = [asked EXCEPT ![SocketOf(w)] = @ \cup {worker[w].name}]
  /\ worker' = [worker EXCEPT ![w] = At(w, "recv", NoJob)]
  /\ UNCHANGED <<pending, workq, arrived, cache, reply>>

(* A hard error of sendto or recvfrom closes the socket: what was asked    *)
(* through it is answered to a port that is gone.                          *)
SocketError(w) ==
  /\ worker[w].pc \in {"send", "recv"}
  /\ asked' = [asked EXCEPT ![SocketOf(w)] = {}]
  /\ arrived' = [arrived EXCEPT ![SocketOf(w)] = <<>>]
  /\ worker' = [worker EXCEPT ![w] = Free]
  /\ UNCHANGED <<pending, workq, cache, reply>>

(* The reply to the client, when the relay is still listening. *)
RecvAnswer(w) ==
  LET a == Head(arrived[SocketOf(w)]) IN
  /\ worker[w].pc = "recv" /\ arrived[SocketOf(w)] # <<>>
  /\ arrived' = [arrived EXCEPT ![SocketOf(w)] = Tail(@)]
  /\ worker' = [worker EXCEPT ![w] = At(w, "put", a)]
  /\ \/ reply' = [reply EXCEPT ![worker[w].client] =
                    [name |-> worker[w].name, answer |-> a]]
     \/ UNCHANGED reply
  /\ UNCHANGED <<pending, workq, asked, cache>>

(* SO_RCVTIMEO: the work item is freed, the socket is kept. *)
TimedOut_Never(w) == FALSE
TimedOut(w) ==
  arrived[SocketOf(w)] = <<>> /\ (LateAnswers \/ worker[w].name \notin asked[SocketOf(w)])

RecvTimeout(w) ==
  /\ worker[w].pc = "recv" /\ TimedOut(w)
  /\ worker' = [worker EXCEPT ![w] = Free]
  /\ UNCHANGED <<pending, workq, asked, arrived, cache, reply>>

(* cache_put, skipped for what dns_resp_ttl refuses. *)
CachePut(w) ==
  /\ worker[w].pc = "put"
  /\ \/ cache' = [cache EXCEPT ![SlotOf[worker[w].name]] =
                    [key |-> worker[w].name, resp |-> worker[w].answer]]
     \/ UNCHANGED cache
  /\ worker' = [worker EXCEPT ![w] = Free]
  /\ UNCHANGED <<pending, workq, asked, arrived, reply>>

(* The deadline of an entry passes. *)
Expire(s) ==
  /\ cache[s] # EmptySlot
  /\ cache' = [cache EXCEPT ![s] = EmptySlot]
  /\ UNCHANGED <<pending, workq, worker, asked, arrived, reply>>

-----------------------------------------------------------------------------
(* The upstream resolver and the network between. *)
Answer(w, n) ==
  /\ n \in asked[w]
  /\ asked' = [asked EXCEPT ![w] = @ \ {n}]
  /\ arrived' = [arrived EXCEPT ![w] = Append(@, n)]
  /\ UNCHANGED <<pending, workq, worker, cache, reply>>

Lose(w, n) ==
  /\ n \in asked[w]
  /\ asked' = [asked EXCEPT ![w] = @ \ {n}]
  /\ UNCHANGED <<pending, workq, worker, arrived, cache, reply>>

WorkerStep(w) ==
  \/ Take(w) \/ Send(w) \/ SocketError(w) \/ RecvAnswer(w) \/ RecvTimeout(w)
  \/ CachePut(w)

Next ==
  \/ \E c \in Clients : Receive(c) \/ \E n \in Names : Ask(c, n)
  \/ \E w \in Workers : WorkerStep(w)
  \/ \E w \in Workers, n \in Names : Answer(w, n) \/ Lose(w, n)
  \/ \E s \in Slots : Expire(s)

Spec == Init /\ [][Next]_vars

AtWork(w) == Send(w) \/ RecvAnswer(w) \/ RecvTimeout(w) \/ CachePut(w)
Settled(w, n) == Answer(w, n) \/ Lose(w, n)

(* Tasks run; a question is answered or its answer is lost. *)
FairSpec ==
  /\ Spec
  /\ \A c \in Clients : WF_vars(Receive(c))
  /\ \A w \in Workers : WF_vars(AtWork(w))
  /\ \A w \in Workers : SF_vars(Take(w))
  /\ \A w \in Workers, n \in Names : WF_vars(Settled(w, n))

-----------------------------------------------------------------------------
(* The comment on the workers: in-flight queries never cross responses.    *)
(* What a client is told, and what the cache will tell others, is about    *)
(* the name that was asked for.                                            *)
RepliesMatch == \A c \in Clients : reply[c].answer = reply[c].name
CacheTruthful == \A s \in Slots : cache[s].resp = cache[s].key

(* Why: while no answer comes late, a socket holds at most the answer to   *)
(* the question its worker is waiting for.                                 *)
SocketInv(w) ==
  LET n == worker[w].name IN
  /\ worker[w].pc # "recv" => asked[w] = {} /\ arrived[w] = <<>>
  /\ worker[w].pc = "recv" =>
       \/ asked[w] \subseteq {n} /\ arrived[w] = <<>>
       \/ asked[w] = {} /\ arrived[w] = <<n>>
  /\ worker[w].pc = "put" => worker[w].answer = n

ForwarderInv ==
  (\A w \in Workers : SocketInv(w)) /\ RepliesMatch /\ CacheTruthful

(* No worker is lost to an upstream that does not answer: with a silent    *)
(* resolver, too, each one keeps coming back for work.                     *)
WorkersReturn == \A w \in Workers : []<>(worker[w].pc = "idle")
=============================================================================
