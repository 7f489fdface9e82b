--------------------------- MODULE MCRefreshLease ---------------------------
(***************************************************************************)
(* Instances of RefreshLease for TLC.                                      *)
(***************************************************************************)
EXTENDS RefreshLease, TLC

CONSTANTS p1, p2, f1, f2

\* Two processes, each with one refresh at a time.
MCHost == (f1 :> p1) @@ (f2 :> p2)

\* A single refresh.
MCHost1 == f1 :> p1

=============================================================================
