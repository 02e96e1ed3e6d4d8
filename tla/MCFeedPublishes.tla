--------------------------- MODULE MCFeedPublishes ---------------------------
(***************************************************************************)
(* The instances of MCFeed with the history of FeedPublishes.              *)
(***************************************************************************)
EXTENDS MCFeed, FeedPublishes
=============================================================================
