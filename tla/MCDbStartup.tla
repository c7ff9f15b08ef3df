---------------------------- MODULE MCDbStartup ----------------------------
(***************************************************************************)
(* Small instances of DbStartup: main and two more clients, a quota below, *)
(* at and above the default one.                                           *)
(***************************************************************************)
EXTENDS DbStartup

CONSTANTS c1, c2, k1, k2, k3, k4
=============================================================================
