---------------------------- MODULE MCMonitoring ----------------------------
(***************************************************************************)
(* One service, two invocations of the relay and two of the watchdog.      *)
(***************************************************************************)
EXTENDS MonitoringProperties, TLC

CONSTANTS inventory, r1, r2, w1, w2

MCServices == {inventory}
MCRelays == {r1, r2}
MCWatchdogs == {w1, w2}
=============================================================================
