--------------------------- MODULE MCLatencyAudit ---------------------------
(***************************************************************************)
(* Three depth frames over at most two connections; the local clock is     *)
(* five behind the venue's.                                                *)
(***************************************************************************)
EXTENDS LatencyAudit

Behind == -5
=============================================================================
