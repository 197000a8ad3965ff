--------------------------- MODULE MCDnsForwarder ---------------------------
(* Model values for the runs of DnsForwarder: two names that collide in    *)
(* the one slot of the cache.                                              *)
EXTENDS DnsForwarder

CONSTANTS alice, bob, n1, n2, s1, w1, w2

OneClient  == {alice}
TwoClients == {alice, bob}
TwoNames   == {n1, n2}
OneSlot    == {s1}
Collide    == [n \in TwoNames |-> s1]
TwoWorkers == {w1, w2}
OneWorker  == {w1}
=============================================================================
