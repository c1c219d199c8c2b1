------------------------- MODULE MC_HttpWrapHandler -------------------------
(* A small instance of HttpWrapHandler for TLC. *)
EXTENDS HttpWrapHandler, TLC

CONSTANTS q1, q2  \* the two requests

(* The namer names the first request and leaves the second to the default. *)
MCReqs == {q1, q2}

MCNamer == (q1 :> "users") @@ (q2 :> "")
=============================================================================
