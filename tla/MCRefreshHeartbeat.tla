------------------------- MODULE MCRefreshHeartbeat -------------------------
(* An instance of RefreshHeartbeat for TLC.                                *)
EXTENDS RefreshHeartbeat, TLC

CONSTANTS p1, p2, f1, f2

\* Two processes, each with one refresh at a time.
MCHost == (f1 :> p1) @@ (f2 :> p2)

=============================================================================
