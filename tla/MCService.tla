------------------------------- MODULE MCService -------------------------------
(***************************************************************************)
(* One process hosting the daemon and a tower's monitor.                   *)
(***************************************************************************)
EXTENDS Daemon, Monitor

serviceVars == <<daemonVars, monitorVars>>

ServiceInit == DaemonInit /\ MonitorInit
ServiceNext == \/ DaemonNext /\ UNCHANGED monitorVars
               \/ MonitorNext /\ UNCHANGED daemonVars
ServiceSpec == ServiceInit /\ [][ServiceNext]_serviceVars /\ DaemonFairness /\ MonitorFairness
=============================================================================
