--------------------------- MODULE MCRefreshLease ---------------------------
(* The real periods, in milliseconds, and an owner that looks early or late. *)
EXTENDS RefreshLease

EarlyOrLate == {-4000, 0, 17000}
=============================================================================
