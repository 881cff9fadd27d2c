------------------------------ MODULE MCPings ------------------------------
(***************************************************************************)
(* A small instance of Pings: the server's interval is longer than the     *)
(* client's timeout, so the client lives on the answers to its own PINGs.  *)
(***************************************************************************)
EXTENDS Pings

Intervals == [p \in Peers |-> IF p = "client" THEN 2 ELSE 6]
Timeouts  == [p \in Peers |-> IF p = "client" THEN 5 ELSE 9]
Data      == [p \in Peers |-> IF p = "client" THEN {None, 2} ELSE {None}]
Epochs    == [p \in Peers |-> IF p = "client" THEN 0 ELSE 3]
=============================================================================
