------------------------------ MODULE MCNotify ------------------------------
(* AlertDiagnostics for TLC: two writers race for one place in the queue,  *)
(* so two messages can be in it; a drain may try one of them.              *)
EXTENDS AlertDiagnostics

MCWriters == {App, Host}
MCDrainers == {Cron, Manual}
=============================================================================
