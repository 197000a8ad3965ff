----------------------------- MODULE DnsProofs -----------------------------
(* Theorems of the DNS relay's data side, for any number of clients, names *)
(* and workers and any queue depth.                                        *)
EXTENDS DnsForwarder, SequenceTheorems, TLAPS

-----------------------------------------------------------------------------
(* Every variable keeps its type; in particular the hand-off queue never   *)
(* holds more than QueueDepth work items.                                  *)
THEOREM TypeCorrect == Spec => []TypeOK
<1> USE ConstantsAssumption DEF TypeOK
<1>1. Init => TypeOK
  BY DEF Init, Free, EmptySlot, Maybe
<1>2. TypeOK /\ [Next]_vars => TypeOK'
  <2> SUFFICES ASSUME TypeOK, [Next]_vars PROVE TypeOK'
    OBVIOUS
  <2>1. ASSUME NEW c \in Clients, NEW n \in Names, Ask(c, n) PROVE TypeOK'
    BY <2>1 DEF Ask, Maybe
  <2>2. ASSUME NEW c \in Clients, Receive(c) PROVE TypeOK'
    <3> DEFINE n == pending[c]
               job == [client |-> c, name |-> n]
               r == [name |-> n, answer |-> cache[SlotOf[n]].resp]
    <3>1. n \in Names /\ job \in Job
      BY <2>2 DEF Receive, Job, Maybe
    <3>2. workq' \in Seq(Job) /\ Len(workq') <= QueueDepth
      <4>1. workq' = workq \/ (~QueueFull /\ workq' = Append(workq, job))
        BY <2>2 DEF Receive
      <4>2. CASE workq' = workq
        BY <4>2
      <4>3. CASE ~QueueFull /\ workq' = Append(workq, job)
        BY <3>1, <4>3, AppendProperties DEF QueueFull
      <4> QED BY <4>1, <4>2, <4>3
    <3>3. cache[SlotOf[n]].resp \in Maybe(Names)
      BY <3>1
    <3>4. r \in [name : Maybe(Names), answer : Maybe(Names)]
      BY <3>1, <3>3 DEF Maybe
    <3>5. reply' \in [Clients -> [name : Maybe(Names), answer : Maybe(Names)]]
      BY <2>2, <3>4 DEF Receive
    <3> QED BY <2>2, <3>2, <3>5 DEF Receive, Maybe
  <2>3. ASSUME NEW w \in Workers, Take(w) PROVE TypeOK'
    <3> DEFINE j == Head(workq)
               r == [pc |-> "send", client |-> j.client, name |-> j.name, answer |-> NoJob]
    <3>1. j \in Job /\ Tail(workq) \in Seq(Job) /\ Len(Tail(workq)) <= QueueDepth
      BY <2>3, HeadTailProperties DEF Take
    <3>2. r \in Busy
      BY <3>1 DEF Job, Busy, Maybe
    <3> HIDE DEF j, r
    <3>3. worker' = worker \/ worker' = [worker EXCEPT ![w] = r]
      BY <2>3 DEF Take, r, j
    <3>4. worker' \in [Workers -> {Free} \cup Busy]
      BY <3>2, <3>3
    <3> QED BY <2>3, <3>1, <3>4 DEF Take
  <2>4. ASSUME NEW w \in Workers, worker[w].pc # "idle"
        PROVE  /\ worker[w] \in Busy
               /\ worker[w].name \in Names /\ worker[w].client \in Clients
    <3>1. worker[w] \in Busy
      BY <2>4 DEF Free
    <3> QED BY <3>1 DEF Busy
  <2>5. ASSUME NEW w \in Workers, worker[w].pc # "idle",
               NEW l \in {"send", "recv", "put"}, NEW a \in Maybe(Names),
               worker' = [worker EXCEPT ![w] = At(w, l, a)]
        PROVE  worker' \in [Workers -> {Free} \cup Busy]
    <3>1. At(w, l, a) \in Busy
      BY <2>4, <2>5 DEF At, Busy
    <3> QED BY <2>5, <3>1
  <2>6. ASSUME NEW w \in Workers, Send(w) PROVE TypeOK'
    <3>1. worker' \in [Workers -> {Free} \cup Busy]
      BY <2>5, <2>6 DEF Send, Maybe
    <3>2. asked' \in [Workers -> SUBSET Names]
      BY <2>4, <2>6 DEF Send, SocketOf
    <3> QED BY <2>6, <3>1, <3>2 DEF Send
  <2>7. ASSUME NEW w \in Workers, SocketError(w) PROVE TypeOK'
    BY <2>7 DEF SocketError, SocketOf
  <2>8. ASSUME NEW w \in Workers, RecvAnswer(w) PROVE TypeOK'
    <3> DEFINE a == Head(arrived[w])
               r == [name |-> worker[w].name, answer |-> a]
    <3>1. a \in Names /\ Tail(arrived[w]) \in Seq(Names)
      BY <2>8, HeadTailProperties DEF RecvAnswer, SocketOf
    <3>2. arrived' \in [Workers -> Seq(Names)]
      BY <2>8, <3>1 DEF RecvAnswer, SocketOf
    <3>3. worker' \in [Workers -> {Free} \cup Busy]
      BY <2>5, <2>8, <3>1 DEF RecvAnswer, SocketOf, Maybe
    <3>4. r \in [name : Maybe(Names), answer : Maybe(Names)]
      BY <2>4, <2>8, <3>1 DEF RecvAnswer, Maybe
    <3>5. reply' = reply \/ reply' = [reply EXCEPT ![worker[w].client] = r]
      BY <2>8 DEF RecvAnswer, SocketOf
    <3> HIDE DEF r
    <3>6. reply' \in [Clients -> [name : Maybe(Names), answer : Maybe(Names)]]
      BY <3>4, <3>5
    <3> QED BY <2>8, <3>2, <3>3, <3>6 DEF RecvAnswer
  <2>9. ASSUME NEW w \in Workers, RecvTimeout(w) PROVE TypeOK'
    BY <2>9 DEF RecvTimeout
  <2>10. ASSUME NEW w \in Workers, CachePut(w) PROVE TypeOK'
    <3> DEFINE e == [key |-> worker[w].name, resp |-> worker[w].answer]
    <3>1. e \in [key : Maybe(Names), resp : Maybe(Names)]
      BY <2>4, <2>10 DEF CachePut, Busy, Maybe
    <3>2. cache' = cache \/ cache' = [cache EXCEPT ![SlotOf[worker[w].name]] = e]
      BY <2>10 DEF CachePut
    <3> HIDE DEF e
    <3>3. cache' \in [Slots -> [key : Maybe(Names), resp : Maybe(Names)]]
      BY <3>1, <3>2
    <3> QED BY <2>10, <3>3 DEF CachePut
  <2>11. ASSUME NEW w \in Workers, NEW n \in Names, Answer(w, n) PROVE TypeOK'
    <3>1. arrived' \in [Workers -> Seq(Names)]
      BY <2>11, AppendProperties DEF Answer
    <3> QED BY <2>11, <3>1 DEF Answer
  <2>12. ASSUME NEW w \in Workers, NEW n \in Names, Lose(w, n) PROVE TypeOK'
    BY <2>12 DEF Lose
  <2>13. ASSUME NEW s \in Slots, Expire(s) PROVE TypeOK'
    BY <2>13 DEF Expire, EmptySlot, Maybe
  <2>14. CASE UNCHANGED vars
    BY <2>14 DEF vars
  <2> QED BY <2>1, <2>2, <2>3, <2>6, <2>7, <2>8, <2>9, <2>10, <2>11, <2>12,
             <2>13, <2>14 DEF Next, WorkerStep
<1> QED BY <1>1, <1>2, PTL DEF Spec

-----------------------------------------------------------------------------
(* In-flight queries never cross responses as long as no answer comes      *)
(* after the receive timeout: what a client is told is about the name it   *)
(* asked for.  Inductive because a socket then holds at most the answer to *)
(* the question its own worker is waiting for.                             *)
THEOREM NeverCross ==
  ASSUME LateAnswers = FALSE
  PROVE  Spec => [](RepliesMatch /\ CacheTruthful)
<1> USE ConstantsAssumption DEF RepliesMatch, CacheTruthful
<1>1. Init => ForwarderInv
  BY DEF Init, ForwarderInv, SocketInv, Free, EmptySlot
<1>2. TypeOK /\ ForwarderInv /\ [Next]_vars => ForwarderInv'
  <2> SUFFICES ASSUME TypeOK, ForwarderInv, [Next]_vars PROVE ForwarderInv'
    OBVIOUS
  <2> USE DEF TypeOK
  <2>1. ASSUME NEW c \in Clients, NEW n \in Names, Ask(c, n) PROVE ForwarderInv'
    BY <2>1 DEF Ask, ForwarderInv, SocketInv
  <2>2. ASSUME NEW c \in Clients, Receive(c) PROVE ForwarderInv'
    <3>1. UNCHANGED <<worker, asked, arrived, cache>>
      BY <2>2 DEF Receive
    <3>2. RepliesMatch'
      <4>1. pending[c] \in Names
        BY <2>2 DEF Receive, Maybe
      <4>2. Hit(pending[c]) => cache[SlotOf[pending[c]]].resp = pending[c]
        BY <4>1 DEF Hit, ForwarderInv
      <4> DEFINE r == [name |-> pending[c], answer |-> cache[SlotOf[pending[c]]].resp]
      <4>3. reply' = reply \/ (reply' = [reply EXCEPT ![c] = r] /\ r.answer = r.name)
        BY <2>2, <4>2 DEF Receive
      <4> HIDE DEF r
      <4> QED BY <4>3 DEF ForwarderInv
    <3> QED BY <3>1, <3>2 DEF ForwarderInv, SocketInv
  <2>3. ASSUME NEW w \in Workers, Take(w) PROVE ForwarderInv'
    <3> DEFINE j == Head(workq)
               r == [pc |-> "send", client |-> j.client, name |-> j.name, answer |-> NoJob]
    <3>1. worker' = worker \/ (worker' = [worker EXCEPT ![w] = r] /\ r.pc = "send")
      BY <2>3 DEF Take
    <3>2. UNCHANGED <<asked, arrived, cache, reply>> /\ worker[w].pc = "idle"
      BY <2>3 DEF Take
    <3> HIDE DEF r
    <3> QED BY <3>1, <3>2 DEF ForwarderInv, SocketInv
  <2>4. ASSUME NEW w \in Workers, Send(w) PROVE ForwarderInv'
    <3>1. /\ worker' = [worker EXCEPT ![w] = At(w, "recv", NoJob)]
          /\ asked' = [asked EXCEPT ![w] = {worker[w].name}]
          /\ worker[w].pc = "send" /\ arrived[w] = <<>>
      BY <2>4 DEF Send, SocketOf, ForwarderInv, SocketInv
    <3>2. UNCHANGED <<arrived, cache, reply>>
      BY <2>4 DEF Send
    <3> QED BY <3>1, <3>2 DEF ForwarderInv, SocketInv, At
  <2>5. ASSUME NEW w \in Workers, SocketError(w) PROVE ForwarderInv'
    BY <2>5 DEF SocketError, SocketOf, Free, ForwarderInv, SocketInv
  <2>6. ASSUME NEW w \in Workers, RecvAnswer(w) PROVE ForwarderInv'
    <3> DEFINE n == worker[w].name
               r == [name |-> n, answer |-> n]
    <3>1. arrived[w] = <<n>> /\ asked[w] = {} /\ worker[w].pc = "recv"
      BY <2>6 DEF RecvAnswer, SocketOf, ForwarderInv, SocketInv
    <3>2. Head(arrived[w]) = n /\ Tail(arrived[w]) = <<>>
      BY <3>1
    <3>3. /\ worker' = [worker EXCEPT ![w] = At(w, "put", n)]
          /\ arrived' = [arrived EXCEPT ![w] = <<>>]
          /\ UNCHANGED <<asked, cache>>
          /\ reply' = reply \/ reply' = [reply EXCEPT ![worker[w].client] = r]
      BY <2>6, <3>2 DEF RecvAnswer, SocketOf
    <3>4. r.name = r.answer
      OBVIOUS
    <3> HIDE DEF r
    <3>5. RepliesMatch'
      BY <3>3, <3>4 DEF ForwarderInv
    <3> QED BY <3>1, <3>3, <3>5 DEF ForwarderInv, SocketInv, At
  <2>7. ASSUME NEW w \in Workers, RecvTimeout(w) PROVE ForwarderInv'
    <3>1. arrived[w] = <<>> /\ asked[w] = {}
      BY <2>7 DEF RecvTimeout, TimedOut, SocketOf, ForwarderInv, SocketInv
    <3> QED BY <2>7, <3>1 DEF RecvTimeout, Free, ForwarderInv, SocketInv
  <2>8. ASSUME NEW w \in Workers, CachePut(w) PROVE ForwarderInv'
    <3> DEFINE e == [key |-> worker[w].name, resp |-> worker[w].answer]
    <3>1. e.key = e.resp /\ asked[w] = {} /\ arrived[w] = <<>>
      BY <2>8 DEF CachePut, ForwarderInv, SocketInv
    <3>2. /\ cache' = cache \/ cache' = [cache EXCEPT ![SlotOf[worker[w].name]] = e]
          /\ worker' = [worker EXCEPT ![w] = Free]
          /\ UNCHANGED <<asked, arrived, reply>>
      BY <2>8 DEF CachePut
    <3> HIDE DEF e
    <3>3. CacheTruthful'
      BY <3>1, <3>2 DEF ForwarderInv
    <3> QED BY <3>1, <3>2, <3>3 DEF ForwarderInv, SocketInv, Free
  <2>9. ASSUME NEW w \in Workers, NEW n \in Names, Answer(w, n) PROVE ForwarderInv'
    <3>1. asked[w] = {n} /\ arrived[w] = <<>> /\ worker[w].pc = "recv"
          /\ worker[w].name = n
      BY <2>9 DEF Answer, ForwarderInv, SocketInv
    <3>2. Append(arrived[w], n) = <<n>> /\ asked[w] \ {n} = {}
      BY <3>1
    <3>3. asked' = [asked EXCEPT ![w] = {}] /\ arrived' = [arrived EXCEPT ![w] = <<n>>]
      BY <2>9, <3>2 DEF Answer
    <3> QED BY <2>9, <3>1, <3>3 DEF Answer, ForwarderInv, SocketInv
  <2>10. ASSUME NEW w \in Workers, NEW n \in Names, Lose(w, n) PROVE ForwarderInv'
    BY <2>10 DEF Lose, ForwarderInv, SocketInv
  <2>11. ASSUME NEW s \in Slots, Expire(s) PROVE ForwarderInv'
    BY <2>11 DEF Expire, EmptySlot, ForwarderInv, SocketInv
  <2>12. CASE UNCHANGED vars
    BY <2>12 DEF vars, ForwarderInv, SocketInv
  <2> QED BY <2>1, <2>2, <2>3, <2>4, <2>5, <2>6, <2>7, <2>8, <2>9, <2>10, <2>11,
             <2>12 DEF Next, WorkerStep
<1>3. ForwarderInv => RepliesMatch /\ CacheTruthful
  BY DEF ForwarderInv
<1> QED BY <1>1, <1>2, <1>3, TypeCorrect, PTL DEF Spec

(* The part of it about the cache: a slot never holds the answer to        *)
(* another name's question, so that what one answer leaves behind cannot   *)
(* mislead later clients either.                                           *)
THEOREM CacheStaysTruthful ==
  ASSUME LateAnswers = FALSE
  PROVE  Spec => []CacheTruthful
  BY NeverCross, PTL
=============================================================================
