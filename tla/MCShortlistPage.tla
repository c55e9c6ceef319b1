-------------------------- MODULE MCShortlistPage --------------------------
(***************************************************************************)
(* The shortlist page with a user who starts twice: enough for a poll of   *)
(* the first run to be answered at any moment of the second.               *)
(***************************************************************************)
EXTENDS ShortlistPage
=============================================================================
