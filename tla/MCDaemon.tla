------------------------------ MODULE MCDaemon ------------------------------
(* Two key commands, an edit by hand, a request and a crash.               *)
EXTENDS Daemon
=============================================================================
