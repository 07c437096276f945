--------------------------- MODULE MCServiceRequests ---------------------------
(***************************************************************************)
(* ServiceRequests for TLC. The cap of a listing and its default are scaled *)
(* down, so that three rows are already too many for one listing.          *)
(***************************************************************************)
EXTENDS ServiceRequests

MCLimits == {-1, 0, 1, 2, 3, None}

=============================================================================
