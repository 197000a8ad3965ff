--------------------------- MODULE MCDnsListener ---------------------------
(* Model values for the runs of DnsListener. *)
EXTENDS DnsListener

CONSTANTS http, cli, evloop, relay

OneSetter   == {http}
TwoSetters  == {http, cli}
NoApplier   == {}
OneApplier  == {evloop}
=============================================================================
