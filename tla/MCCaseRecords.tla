--------------------------- MODULE MCCaseRecords ---------------------------
(***************************************************************************)
(* Requests of kinds that touch the same rows come together:               *)
(* three for a version of a new case, of which the third sees what two     *)
(* have left; two to create a run, two for a version of its case; a run    *)
(* whose candidate it takes up to three attempts to persist, two verdicts  *)
(* on it and an export; and three verdicts on a candidate with two exports *)
(* with one key.                                                           *)
(***************************************************************************)
EXTENDS CaseIntake, TLC

CONSTANTS jd1, jd2, jd3, v1, v2, v3, e1, e2, c1, c2

AllMixes ==
    {[threads |-> {jd1, jd2, jd3}, given |-> "case"],
     [threads |-> {c1, c2, jd1, jd2}, given |-> "nothing"],
     [threads |-> {c1, v1, v2, e1} \cup PersistAttempts, given |-> "nothing"],
     [threads |-> {v1, v2, v3, e1, e2}, given |-> "candidate"]}

TwoVersions == {[threads |-> {jd1, jd2}, given |-> "case"]}

VersionsMC == {jd1, jd2, jd3}
VerdictsMC == {v1, v2, v3}
ExportsMC == {e1, e2}
CreatesMC == {c1, c2}
AttemptsMC == 1..3
=============================================================================
