---------------------------- MODULE MCEventLoop -----------------------------
(* The event loop with a pool of two connections. *)
EXTENDS EventLoop
=============================================================================
