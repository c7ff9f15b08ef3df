---------------------------- MODULE MCWebServer ----------------------------
(***************************************************************************)
(* A small instance of WebServer: a session over TLS, a plain one, and     *)
(* two loops.                                                              *)
(***************************************************************************)
EXTENDS WebServer

CONSTANTS tls, plain, l1, l2
=============================================================================
