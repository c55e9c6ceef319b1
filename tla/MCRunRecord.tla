---------------------------- MODULE MCRunRecord ----------------------------
(***************************************************************************)
(* The row under at-least-once writes, on small instances: one or two      *)
(* repeated attempts, which is what it takes for an attempt to run into    *)
(* the one that replaces it, over a run of three or four rounds.           *)
(***************************************************************************)
EXTENDS RunRecord

NoFault == {}
Crashes == {"crash", "slow-publish"}
LostDispatch == {"crash", "dispatch"}
SlowPatches == {"slow-patch"}
=============================================================================
