-------------------------- MODULE MCHttpServerConn --------------------------
(* HttpServerConn with small constants, given in the configurations. *)
EXTENDS HttpServerConn
=============================================================================
