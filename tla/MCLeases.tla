------------------------------ MODULE MCLeases ------------------------------
(* An instance of Leases for TLC: one attempt of a queue that is closed, one *)
(* of an open queue. *)
EXTENDS Leases, TLC

CONSTANTS a1, a2, closed, open

OwnQueue == (a1 :> closed) @@ (a2 :> open)

\* maxInFlight = -1 is accepted and admits nothing.
Limits == (closed :> -1) @@ (open :> 1)
=============================================================================
