----------------------------- MODULE MCWifiCore -----------------------------
(* Model values and bounds for the runs of WifiCore. *)
EXTENDS WifiCore

CONSTANTS http, evloop, w1, w2

OneCaller  == {http}
NoCaller   == {}
TwoWorkers == {w1, w2}
OneWorker  == {w1}
Flapping   == {1, 6, 14}   \* an uplink that roams; 14 is outside the AP's range
Steady     == {6}
Elsewhere  == {1}          \* an uplink on another channel than the AP's default
=============================================================================
