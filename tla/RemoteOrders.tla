---------------------------- MODULE RemoteOrders ----------------------------
(* What remote commands by ntfy promise: the router carries out what was   *)
(* published on the topic it listens to, in the order of publication, and  *)
(* nothing twice, across restarts. A listening is the time between two     *)
(* changes of topic; a poll of the last one may still end in the next.     *)
EXTENDS Naturals, Sequences

CONSTANTS Topics, MaxListens

VARIABLES
  topic,      \* of each listening
  published,  \* number of messages of each topic
  carried     \* by each listening, the messages carried out, in order

vars == <<topic, published, carried>>

Last(s) == IF s = <<>> THEN 0 ELSE s[Len(s)]

Init ==
  /\ topic \in [1..1 -> Topics] /\ published = [t \in Topics |-> 0]
  /\ carried = [l \in 1..MaxListens |-> <<>>]

Listen(t) == topic' = Append(topic, t) /\ UNCHANGED <<published, carried>>

Publish(t) ==
  /\ published' = [published EXCEPT ![t] = @ + 1] /\ UNCHANGED <<topic, carried>>

CarryOut(l) ==
  /\ \E n \in Last(carried[l]) + 1 .. published[topic[l]] :
       carried' = [carried EXCEPT ![l] = Append(@, n)]
  /\ UNCHANGED <<topic, published>>

Next ==
  \/ \E t \in Topics : Listen(t) \/ Publish(t)
  \/ \E l \in DOMAIN topic : CarryOut(l)

Spec == Init /\ [][Next]_vars
=============================================================================
