---------------------------- MODULE MCEventLoop ----------------------------
(* Two foreign threads against the reactor thread, so that two wakeups race *)
(* for one wait window.                                                     *)
EXTENDS EventLoop

CONSTANTS t1, t2, a, b, r
=============================================================================
