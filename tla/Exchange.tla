------------------------------ MODULE Exchange ------------------------------
(***************************************************************************)
(* What a connection of the web server promises to its client: requests    *)
(* are taken one at a time, each is answered at most once, before the next *)
(* one is taken, and in their order; the connection may be dropped.        *)
(***************************************************************************)
EXTENDS Naturals, Sequences

CONSTANT Connections

VARIABLES got,   \* how many requests each connection took
          gave,  \* the requests it answered, in order
          up     \* whether it may still take or answer one

xvars == <<got, gave, up>>

Init == /\ got = [c \in Connections |-> 0]
        /\ gave = [c \in Connections |-> <<>>]
        /\ up = [c \in Connections |-> TRUE]

Receive(c) ==
  /\ up[c] /\ Len(gave[c]) = got[c]
  /\ got' = [got EXCEPT ![c] = @ + 1]
  /\ UNCHANGED <<gave, up>>

\* The request is answered, maybe as the last one.
Respond(c) ==
  /\ up[c] /\ Len(gave[c]) < got[c]
  /\ gave' = [gave EXCEPT ![c] = Append(@, got[c])]
  /\ \E more \in BOOLEAN : up' = [up EXCEPT ![c] = more]
  /\ UNCHANGED got

Drop(c) ==
  /\ up[c] /\ up' = [up EXCEPT ![c] = FALSE]
  /\ UNCHANGED <<got, gave>>

Next == \E c \in Connections : Receive(c) \/ Respond(c) \/ Drop(c)

Spec == Init /\ [][Next]_xvars
=============================================================================
