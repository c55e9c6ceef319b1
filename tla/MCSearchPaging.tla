--------------------------- MODULE MCSearchPaging ---------------------------
(***************************************************************************)
(* Every schedule of up to three sizes from 1 to 4, extended to four       *)
(* rounds, over lists of up to nine resumes: sizes that divide one another *)
(* and that do not, lists that end before, at and behind a page.           *)
(***************************************************************************)
EXTENDS SearchPaging

AllSchedules == UNION {[1..n -> 1..4] : n \in 1..3}
=============================================================================
